---- MODULE Spec2Model ----
(***************************************************************************)
(* Donation platform: wallet ledger, donation queue worker and Paystack    *)
(* webhook reconciliation.                                                 *)
(*                                                                         *)
(* Money is a fixed-point integer in mills (1/1000 naira), so that amounts *)
(* finer than one kobo (1/100 naira), which fundWalletSchema accepts, and  *)
(* the rounding of toKobo are represented exactly.                         *)
(*                                                                         *)
(* The store is PostgreSQL at its default isolation (read committed): the  *)
(* writes of a prisma.$transaction become visible together at commit, and  *)
(* `increment`/`decrement` are relative updates applied to the committed   *)
(* row.  Every await of the source that reads or writes the store is one   *)
(* step of the model; steps of different requests and jobs interleave.     *)
(*                                                                         *)
(* Spec is the whole system from the empty store.  SpecPayments is its     *)
(* funding half (registration, fundWallet, webhook) from the empty store;  *)
(* SpecDonations is its donation half (makeDonation, donationWorker) from  *)
(* the stores that registration and webhook credits leave behind.          *)
(* SpecPairs is the worker on two jobs over four wallets, and SpecAuth the *)
(* token life cycle (login, refresh, logout, authenticate, cleanup) over   *)
(* a clock that counts minutes.                                            *)
(***************************************************************************)
EXTENDS Integers, Sequences, FiniteSets, TLC

\* ---------------------------------------------------------------- bounds
MaxUsers == 3
MaxRefs == 2
MaxDeliveries == 2
MaxRequests == 2
\* failures of the store, the queue or the cache injected into the donation worker
MaxFaults == 1
MaxRegistrations == 3
MaxOperations == 3
MaxReads == 2
\* refresh tokens created, auth requests made
MaxTokens == 2
MaxCalls == 2
\* quarters of an hour that pass before, and after, a refresh lifetime passes
MaxQuarters == 1

\* ------------------------------------------------------ program constants
\* defaultJobOptions.attempts of the donation queue
Attempts == 3
\* concurrency option of donationWorker
Concurrency == 5
\* '15m'
ACCESS_TOKEN_EXPIRY == 15
REFRESH_TOKEN_EXPIRY_DAYS == 7
\* the configured donation bounds, in naira
MIN_DONATION_AMOUNT == 100
MAX_DONATION_AMOUNT == 1000000
NOTIFICATION_MILESTONES == {2, 5, 10, 25, 50, 100}
PAYSTACK_SECRET_KEY == "sk_secret"

Naira(n) == n * 1000

\* ----------------------------------------------------------------- inputs
\* the emails of the register requests; user u of a funded store registered
\* EmailOf[u]
EmailOf == <<"ada@example.com", "bob@example.com", "cyd@example.com", "dan@example.com">>
Emails == {EmailOf[i] : i \in 1..2}

UserIds == 1..MaxUsers
\* the ids a request may name: those of the users, and one that is never a user's
RequestUserIds == 1..(MaxUsers + 1)
FundAmounts == {Naira(100), Naira(100) + 4}
DonationAmounts == {Naira(49), Naira(60), Naira(100), Naira(50001)}
EventTypes == {"charge.success", "transfer.success", "transfer.failed", "invoice.create"}
SignatureKeys == {PAYSTACK_SECRET_KEY, "sk_forged"}

VARIABLES
    wallets,        \* wallets[u]: balance of the wallet of user u; DOMAIN = registered users
    transactions,   \* Transaction rows
    donations,      \* Donation rows
    jobs,           \* donation queue: jobs[j] is the job with id j
    notifications,  \* notification queue: the 'send-thank-you' jobs added
    deliveries,     \* webhook requests: deliveries[h] is the h-th request
    webhookResult,  \* response and log line of the last webhook request answered
    mdResults,      \* outcome of each makeDonation call, in the order of the calls
    credited,       \* history: credited[r] = wallet increments committed for reference r
    faults,         \* history: number of infrastructure failures the donation worker has met
    funding,        \* fundWallet requests between their PENDING create and their gateway call
    gateway,        \* the transactions initialized at the gateway
    users,          \* the email of each User row, by user id
    registrations,  \* the register requests: email, position and outcome
    beneficiaries,  \* the Beneficiary rows: id, userId, beneficiaryId, nickname
    operations,     \* the beneficiary requests: their arguments, position and outcome
    cache,          \* the Redis entries: key -> value and what was committed when it was written
    readers,        \* the cached reads: key, value, position and outcome
    scans,          \* scans[j]: the keys redis.keys returned to the invalidation of job j
    clock,          \* the time, in minutes
    refreshTokens,  \* RefreshToken rows, in the order of their creation
    blacklist,      \* TokenBlacklist rows
    issued,         \* the access tokens signed so far
    calls           \* the auth requests made, each with its position and its outcome

vars == <<wallets, transactions, donations, jobs, notifications,
          deliveries, webhookResult, mdResults, credited, faults,
          funding, gateway,
          users, registrations,
          beneficiaries, operations,
          cache, readers, scans,
          clock, refreshTokens, blacklist, issued, calls>>

\* ------------------------------------------------------------- references
Reference(prefix, id, suffix) == [prefix |-> prefix, id |-> id, suffix |-> suffix]

\* generateReference(prefix): `${prefix}-${timestamp}-${random}`; n stands for
\* the (timestamp, random) pair drawn, so two calls may draw the same n.
generateReference(prefix, n) == Reference(prefix, <<n, 0>>, "")

\* `DON-${donation.id}-DEBIT` and `DON-${donation.id}-CREDIT`
DonationReference(donationId, type) == Reference("DON", donationId, type)

FundRefs == {generateReference("FUND", n) : n \in 1..MaxRefs}
NoReference == Reference("", <<0, 0>>, "")
NoDonation == <<0, 0>>

\* ------------------------------------------------------------------ kobo
\* Math.round(amount * 100), amount in naira
toKobo(amount) == (amount + 5) \div 10
\* kobo / 100, in naira
fromKobo(kobo) == kobo * 10

KoboAmounts == {toKobo(a) : a \in FundAmounts}

\* ------------------------------------------------------------- the store
DB == [wallets |-> wallets, transactions |-> transactions, donations |-> donations,
       users |-> users]

UserByEmail(D, email) == {u \in DOMAIN D.users : D.users[u] = email}

TransactionByReference(D, reference) == {t \in D.transactions : t.reference = reference}

\* One write of the store.
Apply(D, w) ==
    CASE w.op = "decrement" ->
            [D EXCEPT !.wallets = [@ EXCEPT ![w.wallet] = @ - w.amount]]
      [] w.op = "increment" ->
            [D EXCEPT !.wallets = [@ EXCEPT ![w.wallet] = @ + w.amount]]
      [] w.op = "createDonation" ->
            [D EXCEPT !.donations = @ \cup {w.row}]
      [] w.op = "createTransaction" ->
            [D EXCEPT !.transactions = @ \cup {w.row}]
      [] w.op = "createUser" ->
            [D EXCEPT !.users = Append(@, w.email)]
      [] w.op = "createWallet" ->
            [D EXCEPT !.wallets = Append(@, w.balance)]
      [] w.op = "updateStatus" ->
            [D EXCEPT !.transactions =
                {IF t.reference = w.reference THEN [t EXCEPT !.status = w.status] ELSE t : t \in @}]

RECURSIVE ApplyWrites(_, _)
ApplyWrites(D, ws) ==
    IF ws = <<>> THEN D ELSE ApplyWrites(Apply(D, Head(ws)), Tail(ws))

ViolatesNever(D, w) == FALSE

\* Transaction_reference_key: a create with a reference already present fails;
\* User_email_key: a create with an email already present fails.
Violates(D, w) ==
    \/ /\ w.op = "createTransaction"
       /\ TransactionByReference(D, w.row.reference) # {}
    \/ /\ w.op = "createUser"
       /\ UserByEmail(D, w.email) # {}

Conflict(D, ws) ==
    \E i \in 1..Len(ws) : Violates(ApplyWrites(D, SubSeq(ws, 1, i - 1)), ws[i])

\* The writes calls made directly on the client are committed one by one:
\* the first k succeed and are kept, write k+1 throws.
RunWithoutTransaction(D, ws, k) ==
    ApplyWrites(D, SubSeq(ws, 1, k))

\* prisma.$transaction(async tx => ...): the store performs the first k writes
\* and then fails (k = Len(ws): no failure); the writes are committed together
\* when none failed and are rolled back otherwise.
RunTransaction(D, ws, k) ==
    IF k = Len(ws) /\ ~Conflict(D, ws) THEN ApplyWrites(D, ws) ELSE D

Committed(D, ws, k) == k = Len(ws) /\ ~Conflict(D, ws)

\* ------------------------------------------------------------- the cache
\* `${prefix}:${userId}`, `donations:${userId}:...`, `users:...` (userId 0) and
\* `donation:${id}:${userId}`
CacheKey(prefix, id, userId) == [prefix |-> prefix, id |-> id, userId |-> userId]

\* what is committed: the Donation rows and the webhook credits
Stamp == [donations |-> {d.id : d \in donations}, credited |-> credited]

\* redis.setex(key, ttl, JSON.stringify(value))
Setex(entries, key, value) ==
    [k \in DOMAIN entries \cup {key} |->
        IF k = key THEN [value |-> value, written |-> Stamp] ELSE entries[k]]

\* redis.del(...keys)
Del(entries, keys) == [k \in DOMAIN entries \ keys |-> entries[k]]

\* ---------------------------------------------------------------- Init
NoResult == [status |-> 0, outcome |-> "", reference |-> NoReference]

\* number of webhook credits committed for a reference
Credits(reference) == IF reference \in DOMAIN credited THEN credited[reference] ELSE 0

Init ==
    /\ wallets = <<>>
    /\ transactions = {}
    /\ donations = {}
    /\ jobs = <<>>
    /\ notifications = <<>>
    /\ deliveries = <<>>
    /\ webhookResult = NoResult
    /\ mdResults = <<>>
    /\ credited = <<>>
    /\ faults = 0
    /\ funding = {}
    /\ gateway = {}
    /\ users = <<>>
    /\ registrations = <<>>
    /\ beneficiaries = {}
    /\ operations = <<>>
    /\ cache = <<>>
    /\ readers = <<>>
    /\ scans = [j \in 1..MaxRequests |-> {}]
    /\ clock = 0
    /\ refreshTokens = <<>>
    /\ blacklist = {}
    /\ issued = {}
    /\ calls = <<>>

\* ------------------------------------------------------------ registration
RegisterWritesNoWallet(email) == <<[op |-> "createUser", email |-> email]>>

\* prisma.user.create with the nested wallet create: the two rows of one
\* nested write
RegisterWrites(email) ==
    <<[op |-> "createUser", email |-> email],
      [op |-> "createWallet", balance |-> 0]>>

\* AuthService.register up to its create: findUnique by email, and the
\* ConflictError when a user has it.
registerCheck(email) ==
    /\ Len(registrations) < MaxRegistrations
    /\ registrations' = Append(registrations,
            IF UserByEmail(DB, email) # {}
            THEN [email |-> email, pc |-> "done", outcome |-> "User already exists"]
            ELSE [email |-> email, pc |-> "create", outcome |-> ""])
    /\ UNCHANGED <<wallets, transactions, donations, jobs, notifications, deliveries,
                   webhookResult, mdResults, credited, faults, funding, gateway,
                   users,
                   beneficiaries, operations,
                   cache, readers, scans,
                   clock, refreshTokens, blacklist, issued, calls>>

\* ------------------------------------------------------------------ tokens
\* jwt.sign(jwtData, env.JWT_SECRET, {expiresIn: ACCESS_TOKEN_EXPIRY}) at time
\* now: the token is its payload, so two tokens signed for one user at one
\* time are the same string.
AccessToken(userId, now) ==
    [userId |-> userId, iat |-> now, exp |-> now + ACCESS_TOKEN_EXPIRY]

\* the '' the controller passes when the request has no Authorization header
NoAccessToken == [userId |-> 0, iat |-> 0, exp |-> 0]

\* decoded && decoded.exp, for decoded = jwt.decode(accessToken)
Decodable(accessToken) == accessToken # NoAccessToken

\* expiresAt.setDate(expiresAt.getDate() + REFRESH_TOKEN_EXPIRY_DAYS): the
\* lifetime of a refresh token, in minutes
RefreshLifetime == REFRESH_TOKEN_EXPIRY_DAYS * 24 * 60

\* storeRefreshToken: the RefreshToken row (revoked defaults to false); the
\* token string, fresh random bytes, is the position of the row.
NewRefreshToken(userId, now) ==
    [userId |-> userId, expiresAt |-> now + RefreshLifetime,
     revoked |-> FALSE, deleted |-> FALSE]

\* generateTokens and storeRefreshToken
StoreTokens(userId) ==
    /\ refreshTokens' = Append(refreshTokens, NewRefreshToken(userId, clock))
    /\ issued' = issued \cup {AccessToken(userId, clock)}

\* the create of register request r (k < 2: the store fails after k rows; a
\* unique-index violation fails it as well), the tokens of the new user, and
\* the outcome of the request
registerCreate(r, k) ==
    LET ws == RegisterWrites(registrations[r].email)
        D == RunTransaction(DB, ws, k)
    IN  /\ registrations[r].pc = "create"
        /\ users' = D.users
        /\ wallets' = D.wallets
        /\ registrations' = [registrations EXCEPT
                ![r].pc = "done",
                ![r].outcome = IF Committed(DB, ws, k) THEN "registered"
                               ELSE "create failed"]
        /\ IF Committed(DB, ws, k) THEN StoreTokens(Len(D.users))
           ELSE UNCHANGED <<refreshTokens, issued>>
        /\ UNCHANGED <<transactions, donations, jobs, notifications, deliveries,
                       webhookResult, mdResults, credited, faults, funding, gateway,
                       beneficiaries, operations,
                       cache, readers, scans,
                       clock, blacklist, calls>>

\* A whole AuthService.register of an email no user has, without a store
\* failure: the User and its Wallet (balance 0) are created by one nested
\* create.  Users are numbered in the order they register.
register ==
    LET D == RunTransaction(DB, RegisterWrites(EmailOf[Len(users) + 1]), 2)
    IN  /\ Len(wallets) < MaxUsers
        /\ users' = D.users
        /\ wallets' = D.wallets
        /\ StoreTokens(Len(D.users))
        /\ UNCHANGED <<transactions, donations, jobs, notifications, deliveries,
                       webhookResult, mdResults, credited, faults,
                       funding, gateway, registrations,
                       beneficiaries, operations,
                       cache, readers, scans,
                       clock, blacklist, calls>>

\* ------------------------------------------------------------------- login
\* AuthService.login of user userId (passwordOk = FALSE: bcrypt.compare fails
\* and 'Invalid credentials' is thrown): an access token is signed and a
\* refresh token stored.
login(userId, passwordOk) ==
    /\ userId \in DOMAIN users
    /\ Len(refreshTokens) < MaxTokens
    /\ IF passwordOk THEN StoreTokens(userId)
       ELSE UNCHANGED <<refreshTokens, issued>>
    /\ UNCHANGED <<wallets, transactions, donations, jobs, notifications, deliveries,
                   webhookResult, mdResults, credited, faults, funding, gateway,
                   users, registrations, beneficiaries, operations,
                   cache, readers, scans,
                   clock, blacklist, calls>>

\* an auth request: its tokens, the user it acts for, its position, its outcome
Call(op, refresh, access, userId, pc, outcome) ==
    [op |-> op, refresh |-> refresh, access |-> access, userId |-> userId,
     pc |-> pc, outcome |-> outcome]

\* prisma.refreshToken.findUnique({where: {token}}) finds a row
RefreshTokenFound(token) ==
    token \in DOMAIN refreshTokens /\ ~refreshTokens[token].deleted

\* new Date() > tokenRecord.expiresAt
RefreshTokenExpiredNever(row, now) == FALSE

RefreshTokenExpired(row, now) == now > row.expiresAt

AuthFrame ==
    UNCHANGED <<wallets, transactions, donations, jobs, notifications, deliveries,
                webhookResult, mdResults, credited, faults, funding, gateway,
                users, registrations, beneficiaries, operations,
                cache, readers, scans>>

\* ------------------------------------------------------ refreshAccessToken
\* AuthService.refreshAccessToken up to the delete of an expired token: the
\* row is looked up, and a token that is there, not expired and not revoked
\* gets a new access token.
refreshAccessToken(refreshToken) ==
    LET row == refreshTokens[refreshToken]
    IN  /\ Len(calls) < MaxCalls
        /\ IF ~RefreshTokenFound(refreshToken)
           THEN /\ calls' = Append(calls, Call("refresh", refreshToken, NoAccessToken, 0,
                                               "done", "Invalid refresh token"))
                /\ issued' = issued
           ELSE IF RefreshTokenExpired(row, clock)
           THEN /\ calls' = Append(calls, Call("refresh", refreshToken, NoAccessToken,
                                               row.userId, "delete", ""))
                /\ issued' = issued
           ELSE IF row.revoked
           THEN /\ calls' = Append(calls, Call("refresh", refreshToken, NoAccessToken,
                                               row.userId, "done",
                                               "Refresh token has been revoked"))
                /\ issued' = issued
           ELSE /\ calls' = Append(calls, Call("refresh", refreshToken,
                                               AccessToken(row.userId, clock),
                                               row.userId, "done", "ok"))
                /\ issued' = issued \cup {AccessToken(row.userId, clock)}
        /\ UNCHANGED <<clock, refreshTokens, blacklist>>
        /\ AuthFrame

\* prisma.refreshToken.delete({where: {id}}) of the expired token, which throws
\* when the row is gone, and the 'Refresh token expired' thrown after it
refreshDelete(c) ==
    /\ calls[c].pc = "delete"
    /\ IF RefreshTokenFound(calls[c].refresh)
       THEN /\ refreshTokens' = [refreshTokens EXCEPT ![calls[c].refresh].deleted = TRUE]
            /\ calls' = [calls EXCEPT ![c].pc = "done", ![c].outcome = "Refresh token expired"]
       ELSE /\ refreshTokens' = refreshTokens
            /\ calls' = [calls EXCEPT ![c].pc = "done", ![c].outcome = "error"]
    /\ UNCHANGED <<clock, blacklist, issued>>
    /\ AuthFrame

\* ------------------------------------------------------ revokeRefreshToken
\* AuthService.revokeRefreshToken (logout) up to its update: the lookup
revokeRefreshToken(refreshToken, accessToken) ==
    /\ Len(calls) < MaxCalls
    /\ calls' = Append(calls,
            IF ~RefreshTokenFound(refreshToken)
            THEN Call("logout", refreshToken, accessToken, 0, "done", "Invalid refresh token")
            ELSE Call("logout", refreshToken, accessToken,
                      refreshTokens[refreshToken].userId, "update", ""))
    /\ UNCHANGED <<clock, refreshTokens, blacklist, issued>>
    /\ AuthFrame

\* prisma.refreshToken.update({where: {id}, data: {revoked: true}}) (ok = FALSE:
\* the store fails; it throws as well when the row is gone).  Without a
\* decodable access token the call returns here.
revokeRefreshTokenUpdate(c, ok) ==
    /\ calls[c].pc = "update"
    /\ IF ok /\ RefreshTokenFound(calls[c].refresh)
       THEN /\ refreshTokens' = [refreshTokens EXCEPT ![calls[c].refresh].revoked = TRUE]
            /\ calls' = IF Decodable(calls[c].access)
                        THEN [calls EXCEPT ![c].pc = "create"]
                        ELSE [calls EXCEPT ![c].pc = "done",
                                           ![c].outcome = "Logged out successfully"]
       ELSE /\ refreshTokens' = refreshTokens
            /\ calls' = [calls EXCEPT ![c].pc = "done", ![c].outcome = "error"]
    /\ UNCHANGED <<clock, blacklist, issued>>
    /\ AuthFrame

\* jwt.verify(token, env.JWT_SECRET): the token was signed with the secret and
\* its exp is ahead of the clock
Verifies(accessToken, now) == accessToken \in issued /\ now < accessToken.exp

\* prisma.tokenBlacklist.findUnique({where: {token}})
Blacklisted(accessToken) == \E b \in blacklist : b.token = accessToken

\* ---------------------------------------------------- revokeAllRefreshTokens
\* POST /logout-all behind authenticate, and AuthService.revokeAllRefreshTokens
\* up to its create: updateMany revokes every refresh token of the user the
\* verified access token names (ok = FALSE: the store fails).
revokeAllRefreshTokens(accessToken, ok) ==
    /\ Len(calls) < MaxCalls
    /\ ~Blacklisted(accessToken)
    /\ Verifies(accessToken, clock)
    /\ IF ok
       THEN /\ refreshTokens' = [t \in DOMAIN refreshTokens |->
                    IF refreshTokens[t].userId = accessToken.userId
                       /\ ~refreshTokens[t].deleted
                    THEN [refreshTokens[t] EXCEPT !.revoked = TRUE]
                    ELSE refreshTokens[t]]
            /\ calls' = Append(calls, Call("logoutAll", 0, accessToken,
                                           accessToken.userId, "create", ""))
       ELSE /\ refreshTokens' = refreshTokens
            /\ calls' = Append(calls, Call("logoutAll", 0, accessToken,
                                           accessToken.userId, "done", "error"))
    /\ UNCHANGED <<clock, blacklist, issued>>
    /\ AuthFrame

\* the message a logout returns
LoggedOut(op) ==
    IF op = "logout" THEN "Logged out successfully" ELSE "Logged out from all devices"

\* TokenBlacklist_token_key
BlacklistViolates(accessToken) == Blacklisted(accessToken)

\* prisma.tokenBlacklist.create({data: {token, userId, expiresAt}}) of a logout,
\* with expiresAt the exp of the token (ok = FALSE: the store fails; a token
\* that is in the blacklist violates the unique index), and the return
blacklistCreate(c, ok) ==
    /\ calls[c].pc = "create"
    /\ IF ok /\ ~BlacklistViolates(calls[c].access)
       THEN /\ blacklist' = blacklist \cup
                    {[token |-> calls[c].access, userId |-> calls[c].userId,
                      expiresAt |-> calls[c].access.exp]}
            /\ calls' = [calls EXCEPT ![c].pc = "done", ![c].outcome = LoggedOut(calls[c].op)]
       ELSE /\ blacklist' = blacklist
            /\ calls' = [calls EXCEPT ![c].pc = "done", ![c].outcome = "error"]
    /\ UNCHANGED <<clock, refreshTokens, issued>>
    /\ AuthFrame

\* ------------------------------------------------------------ authenticate
\* the middleware up to jwt.verify: the header and the blacklist lookup
authenticate(accessToken) ==
    /\ Len(calls) < MaxCalls
    /\ calls' = Append(calls,
            IF ~Decodable(accessToken)
            THEN Call("authenticate", 0, accessToken, 0, "done", "No token provided")
            ELSE IF Blacklisted(accessToken)
            THEN Call("authenticate", 0, accessToken, 0, "done", "Token has been revoked")
            ELSE Call("authenticate", 0, accessToken, 0, "verify", ""))
    /\ UNCHANGED <<clock, refreshTokens, blacklist, issued>>
    /\ AuthFrame

\* jwt.verify and next(), or 'Invalid or expired token'
authenticateVerify(c) ==
    /\ calls[c].pc = "verify"
    /\ calls' = [calls EXCEPT
            ![c].pc = "done",
            ![c].userId = IF Verifies(calls[c].access, clock) THEN calls[c].access.userId ELSE 0,
            ![c].outcome = IF Verifies(calls[c].access, clock) THEN "ok"
                           ELSE "Invalid or expired token"]
    /\ UNCHANGED <<clock, refreshTokens, blacklist, issued>>
    /\ AuthFrame

\* ---------------------------------------------------- cleanupExpiredTokens
\* expiresAt: {lt: new Date()}
BlacklistRowExpiredAlways(row, now) == TRUE

BlacklistRowExpired(row, now) == row.expiresAt < now

\* prisma.tokenBlacklist.deleteMany of the expired rows, run every hour
cleanupExpiredTokens ==
    /\ blacklist' = {b \in blacklist : ~BlacklistRowExpired(b, clock)}
    /\ UNCHANGED <<clock, refreshTokens, issued, calls>>
    /\ AuthFrame

\* time passes: a quarter of an hour, or the lifetime of a refresh token
Tick(d) ==
    /\ (clock + d) % RefreshLifetime <= MaxQuarters * ACCESS_TOKEN_EXPIRY
    /\ clock + d <= RefreshLifetime + MaxQuarters * ACCESS_TOKEN_EXPIRY
    /\ clock' = clock + d
    /\ UNCHANGED <<refreshTokens, blacklist, issued, calls>>
    /\ AuthFrame

\* the tokens a client can present
RefreshTokenIds == 1..MaxTokens
AccessTokens == issued \cup {NoAccessToken}

NextAuth ==
    \/ \E u \in {1, 2}, ok \in BOOLEAN : login(u, ok)
    \/ \E t \in RefreshTokenIds : refreshAccessToken(t)
    \/ \E c \in DOMAIN calls : refreshDelete(c)
    \/ \E t \in RefreshTokenIds, a \in AccessTokens : revokeRefreshToken(t, a)
    \/ \E c \in DOMAIN calls, ok \in BOOLEAN : revokeRefreshTokenUpdate(c, ok)
    \/ \E a \in issued, ok \in BOOLEAN : revokeAllRefreshTokens(a, ok)
    \/ \E c \in DOMAIN calls, ok \in BOOLEAN : blacklistCreate(c, ok)
    \/ \E a \in AccessTokens : authenticate(a)
    \/ \E c \in DOMAIN calls : authenticateVerify(c)
    \/ cleanupExpiredTokens
    \/ \E d \in {ACCESS_TOKEN_EXPIRY, RefreshLifetime} : Tick(d)

\* ----------------------------------------------------------- beneficiaries
\* nickname: undefined
NoNickname == ""

Owners == {1, 2}
BeneficiaryIds == {2, 3}
Nicknames == {"mum", "dad"}

BeneficiaryPair(rows, userId, beneficiaryId) ==
    {b \in rows : b.userId = userId /\ b.beneficiaryId = beneficiaryId}

BeneficiaryNickname(rows, userId, nickname) ==
    {b \in rows : b.userId = userId /\ b.nickname = nickname}

\* Beneficiary_userId_beneficiaryId_key and Beneficiary_userId_nickname_key (a
\* NULL nickname never collides): would the row violate them beside rows?
BeneficiaryViolates(rows, row) ==
    \/ BeneficiaryPair(rows, row.userId, row.beneficiaryId) # {}
    \/ /\ row.nickname # NoNickname
       /\ BeneficiaryNickname(rows, row.userId, row.nickname) # {}

Operation(kind, userId, beneficiaryId, nickname, rowId, pc, outcome) ==
    [kind |-> kind, userId |-> userId, beneficiaryId |-> beneficiaryId,
     nickname |-> nickname, rowId |-> rowId, pc |-> pc, outcome |-> outcome]

\* The checks of addBeneficiary, in their order: the error thrown, or "" when
\* the request goes on to its create.
addBeneficiaryOutcome(userId, beneficiaryId, nickname) ==
    IF userId = beneficiaryId THEN "Cannot add yourself as a beneficiary"
    ELSE IF beneficiaryId \notin DOMAIN users THEN "Beneficiary user not found"
    ELSE IF BeneficiaryPair(beneficiaries, userId, beneficiaryId) # {}
         THEN "Beneficiary already saved"
    ELSE IF /\ nickname # NoNickname
            /\ BeneficiaryNickname(beneficiaries, userId, nickname) # {}
         THEN "Nickname is already used for another beneficiary"
    ELSE ""

\* BeneficiaryService.addBeneficiary up to its create
addBeneficiary(userId, beneficiaryId, nickname) ==
    LET outcome == addBeneficiaryOutcome(userId, beneficiaryId, nickname)
    IN  /\ Len(operations) < MaxOperations
        /\ operations' = Append(operations,
                Operation("add", userId, beneficiaryId, nickname, 0,
                          IF outcome = "" THEN "create" ELSE "done", outcome))
        /\ UNCHANGED <<wallets, transactions, donations, jobs, notifications, deliveries,
                       webhookResult, mdResults, credited, faults, funding, gateway,
                       users, registrations, beneficiaries,
                       cache, readers, scans,
                       clock, refreshTokens, blacklist, issued, calls>>

\* prisma.beneficiary.create of request o; the row's id is new
addBeneficiaryCreate(o) ==
    LET op == operations[o]
        row == [id |-> o, userId |-> op.userId, beneficiaryId |-> op.beneficiaryId,
                nickname |-> op.nickname]
        failed == BeneficiaryViolates(beneficiaries, row)
    IN  /\ op.kind = "add"
        /\ op.pc = "create"
        /\ beneficiaries' = IF failed THEN beneficiaries ELSE beneficiaries \cup {row}
        /\ operations' = [operations EXCEPT
                ![o].pc = "done",
                ![o].rowId = IF failed THEN 0 ELSE o,
                ![o].outcome = IF failed THEN "create failed" ELSE "added"]
        /\ UNCHANGED <<wallets, transactions, donations, jobs, notifications, deliveries,
                       webhookResult, mdResults, credited, faults, funding, gateway,
                       users, registrations,
                       cache, readers, scans,
                       clock, refreshTokens, blacklist, issued, calls>>

\* BeneficiaryService.removeBeneficiary up to its delete
removeBeneficiary(userId, beneficiaryId) ==
    LET found == BeneficiaryPair(beneficiaries, userId, beneficiaryId)
    IN  /\ Len(operations) < MaxOperations
        /\ operations' = Append(operations,
                IF found = {}
                THEN Operation("remove", userId, beneficiaryId, NoNickname, 0,
                               "done", "Beneficiary not found")
                ELSE Operation("remove", userId, beneficiaryId, NoNickname,
                               (CHOOSE b \in found : TRUE).id, "delete", ""))
        /\ UNCHANGED <<wallets, transactions, donations, jobs, notifications, deliveries,
                       webhookResult, mdResults, credited, faults, funding, gateway,
                       users, registrations, beneficiaries,
                       cache, readers, scans,
                       clock, refreshTokens, blacklist, issued, calls>>

\* prisma.beneficiary.delete by the id found; it throws when the row is gone
removeBeneficiaryDelete(o) ==
    LET op == operations[o]
        found == {b \in beneficiaries : b.id = op.rowId}
    IN  /\ op.kind = "remove"
        /\ op.pc = "delete"
        /\ beneficiaries' = beneficiaries \ found
        /\ operations' = [operations EXCEPT
                ![o].pc = "done",
                ![o].outcome = IF found = {} THEN "delete failed" ELSE "removed"]
        /\ UNCHANGED <<wallets, transactions, donations, jobs, notifications, deliveries,
                       webhookResult, mdResults, credited, faults, funding, gateway,
                       users, registrations,
                       cache, readers, scans,
                       clock, refreshTokens, blacklist, issued, calls>>

NicknameExistsIncludingOwn(userId, nickname, ownId) ==
    BeneficiaryNickname(beneficiaries, userId, nickname) # {}

\* nicknameExists && nicknameExists.id !== beneficiary.id
NicknameExists(userId, nickname, ownId) ==
    \E b \in BeneficiaryNickname(beneficiaries, userId, nickname) : b.id # ownId

\* BeneficiaryService.updateNickname up to its update
updateNickname(userId, beneficiaryId, nickname) ==
    LET found == BeneficiaryPair(beneficiaries, userId, beneficiaryId)
        rowId == (CHOOSE b \in found : TRUE).id
    IN  /\ Len(operations) < MaxOperations
        /\ operations' = Append(operations,
                IF found = {}
                THEN Operation("update", userId, beneficiaryId, nickname, 0,
                               "done", "Beneficiary not found")
                ELSE IF nickname # NoNickname /\ NicknameExists(userId, nickname, rowId)
                     THEN Operation("update", userId, beneficiaryId, nickname, rowId,
                                    "done", "Nickname is already used for another beneficiary")
                ELSE Operation("update", userId, beneficiaryId, nickname, rowId,
                               "update", ""))
        /\ UNCHANGED <<wallets, transactions, donations, jobs, notifications, deliveries,
                       webhookResult, mdResults, credited, faults, funding, gateway,
                       users, registrations, beneficiaries,
                       cache, readers, scans,
                       clock, refreshTokens, blacklist, issued, calls>>

\* prisma.beneficiary.update by the id found; it throws when the row is gone
\* and when the new nickname collides with another row of the user
updateNicknameUpdate(o) ==
    LET op == operations[o]
        found == {b \in beneficiaries : b.id = op.rowId}
        row == CHOOSE b \in found : TRUE
        updated == [row EXCEPT !.nickname = op.nickname]
        failed == \/ found = {}
                  \/ /\ op.nickname # NoNickname
                     /\ BeneficiaryNickname(beneficiaries \ found, op.userId, op.nickname) # {}
    IN  /\ op.kind = "update"
        /\ op.pc = "update"
        /\ beneficiaries' = IF failed THEN beneficiaries
                            ELSE (beneficiaries \ found) \cup {updated}
        /\ operations' = [operations EXCEPT
                ![o].pc = "done",
                ![o].outcome = IF failed THEN "update failed" ELSE "updated"]
        /\ UNCHANGED <<wallets, transactions, donations, jobs, notifications, deliveries,
                       webhookResult, mdResults, credited, faults, funding, gateway,
                       users, registrations,
                       cache, readers, scans,
                       clock, refreshTokens, blacklist, issued, calls>>

\* ----------------------------------------------------------- cached reads
Reader(key, value, pc, cached, outcome) ==
    [key |-> key, value |-> value, pc |-> pc, cached |-> cached, outcome |-> outcome]

NoValue == <<>>

\* the rows the cached reads select
WalletValue(userId) == [balance |-> wallets[userId]]

UserValue(userId) ==
    [email |-> users[userId], balance |-> wallets[userId],
     sentDonations |-> Cardinality({d \in donations : d.donorId = userId}),
     receivedDonations |-> Cardinality({d \in donations : d.beneficiaryId = userId})]

UsersValue == [u \in DOMAIN users |-> UserValue(u)]

\* donor = false: the donations the user received
DonationsValue(userId) == {d \in donations : d.beneficiaryId = userId}

\* UserService.getUserWallet up to its setex: a cache hit is returned as it is;
\* otherwise the wallet is read from the store.
getUserWallet(userId) ==
    LET key == CacheKey("wallet", NoDonation, userId)
    IN  /\ Len(readers) < MaxReads
        /\ readers' = Append(readers,
                IF key \in DOMAIN cache THEN Reader(key, cache[key].value, "done", TRUE, "ok")
                ELSE IF userId \notin DOMAIN wallets THEN Reader(key, NoValue, "done", FALSE, "Wallet not found")
                ELSE Reader(key, WalletValue(userId), "setex", FALSE, ""))
        /\ UNCHANGED <<wallets, transactions, donations, jobs, notifications, deliveries,
                       webhookResult, mdResults, credited, faults, funding, gateway,
                       users, registrations, beneficiaries, operations, scans, cache,
                       clock, refreshTokens, blacklist, issued, calls>>

\* UserService.getUserById up to its setex
getUserById(userId) ==
    LET key == CacheKey("user", NoDonation, userId)
    IN  /\ Len(readers) < MaxReads
        /\ readers' = Append(readers,
                IF key \in DOMAIN cache THEN Reader(key, cache[key].value, "done", TRUE, "ok")
                ELSE IF userId \notin DOMAIN users THEN Reader(key, NoValue, "done", FALSE, "User not found")
                ELSE Reader(key, UserValue(userId), "setex", FALSE, ""))
        /\ UNCHANGED <<wallets, transactions, donations, jobs, notifications, deliveries,
                       webhookResult, mdResults, credited, faults, funding, gateway,
                       users, registrations, beneficiaries, operations, scans, cache,
                       clock, refreshTokens, blacklist, issued, calls>>

\* UserService.getUsers (first page, no search) up to its setex
getUsers ==
    LET key == CacheKey("users", NoDonation, 0)
    IN  /\ Len(readers) < MaxReads
        /\ readers' = Append(readers,
                IF key \in DOMAIN cache THEN Reader(key, cache[key].value, "done", TRUE, "ok")
                ELSE IF FALSE THEN Reader(key, NoValue, "done", FALSE, "")
                ELSE Reader(key, UsersValue, "setex", FALSE, ""))
        /\ UNCHANGED <<wallets, transactions, donations, jobs, notifications, deliveries,
                       webhookResult, mdResults, credited, faults, funding, gateway,
                       users, registrations, beneficiaries, operations, scans, cache,
                       clock, refreshTokens, blacklist, issued, calls>>

\* DonationService.getDonations (donor = false, first page) up to its setex
getDonations(userId) ==
    LET key == CacheKey("donations", NoDonation, userId)
    IN  /\ Len(readers) < MaxReads
        /\ readers' = Append(readers,
                IF key \in DOMAIN cache THEN Reader(key, cache[key].value, "done", TRUE, "ok")
                ELSE IF FALSE THEN Reader(key, NoValue, "done", FALSE, "")
                ELSE Reader(key, DonationsValue(userId), "setex", FALSE, ""))
        /\ UNCHANGED <<wallets, transactions, donations, jobs, notifications, deliveries,
                       webhookResult, mdResults, credited, faults, funding, gateway,
                       users, registrations, beneficiaries, operations, scans, cache,
                       clock, refreshTokens, blacklist, issued, calls>>

DonationCacheKeyShared(id, userId) == CacheKey("donation", id, 0)

\* `donation:${id}:${userId}`
DonationCacheKey(id, userId) == CacheKey("donation", id, userId)

\* DonationService.getDonation up to its setex: a cache hit is returned as it
\* is; otherwise the donation is read with its transactions, refused to a user
\* who is neither its donor nor its beneficiary, and filtered by the role.
getDonation(id, userId) ==
    LET key == DonationCacheKey(id, userId)
        found == {d \in donations : d.id = id}
        donation == CHOOSE d \in found : TRUE
        isDonor == donation.donorId = userId
        isBeneficiary == donation.beneficiaryId = userId
        result == [donation |-> donation,
                   transactions |-> {t \in transactions :
                                        /\ t.donationId = id
                                        /\ t.type = IF isDonor THEN "DEBIT" ELSE "CREDIT"},
                   userRole |-> IF isDonor THEN "donor" ELSE "beneficiary"]
    IN  /\ Len(readers) < MaxReads
        /\ readers' = Append(readers,
                IF key \in DOMAIN cache THEN Reader(key, cache[key].value, "done", TRUE, "ok")
                ELSE IF found = {} THEN Reader(key, NoValue, "done", FALSE, "Donation not found")
                ELSE IF ~isDonor /\ ~isBeneficiary
                     THEN Reader(key, NoValue, "done", FALSE, "Access denied")
                ELSE Reader(key, result, "setex", FALSE, ""))
        /\ UNCHANGED <<wallets, transactions, donations, jobs, notifications, deliveries,
                       webhookResult, mdResults, credited, faults, funding, gateway,
                       users, registrations, beneficiaries, operations, scans, cache,
                       clock, refreshTokens, blacklist, issued, calls>>

\* redis.setex of the value read, and the return of it
readerSetex(r) ==
    /\ r \in DOMAIN readers
    /\ readers[r].pc = "setex"
    /\ cache' = Setex(cache, readers[r].key, readers[r].value)
    /\ readers' = [readers EXCEPT ![r].pc = "done", ![r].outcome = "ok"]
    /\ UNCHANGED <<wallets, transactions, donations, jobs, notifications, deliveries,
               webhookResult, mdResults, credited, faults, funding, gateway,
               users, registrations, beneficiaries, operations, scans,
                   clock, refreshTokens, blacklist, issued, calls>>

\* the time to live of an entry runs out
cacheExpire(key) ==
    /\ key \in DOMAIN cache
    /\ cache' = Del(cache, {key})
    /\ UNCHANGED <<wallets, transactions, donations, jobs, notifications, deliveries,
               webhookResult, mdResults, credited, faults, funding, gateway,
               users, registrations, beneficiaries, operations, scans, readers,
                   clock, refreshTokens, blacklist, issued, calls>>

\* ------------------------------------------------------------- fundWallet
PendingTransaction(walletId, amount, reference) ==
    [reference |-> reference, walletId |-> walletId, type |-> "CREDIT",
     amount |-> amount, status |-> "PENDING", donationId |-> NoDonation]

ProceedToGatewayAlways(created) == TRUE

\* fundWallet goes on to the gateway call only when prisma.transaction.create
\* resolved: a rejected create throws out of the handler
ProceedToGateway(created) == created

\* PaystackController.fundWallet for the authenticated user userId, up to its
\* gateway call: creates the PENDING Transaction under a generated reference
\* (k = 0: the create throws).
fundWallet(userId, amount, n, k) ==
    LET reference == generateReference("FUND", n)
        ws == <<[op |-> "createTransaction",
                 row |-> PendingTransaction(userId, amount, reference)]>>
    IN  /\ userId \in DOMAIN wallets
        /\ transactions' = RunTransaction(DB, ws, k).transactions
        /\ funding' = IF ProceedToGateway(Committed(DB, ws, k))
                      THEN funding \cup {[amount |-> amount, reference |-> reference]}
                      ELSE funding
        /\ UNCHANGED <<wallets, donations, jobs, notifications, deliveries,
                       webhookResult, mdResults, credited, faults,
                       gateway,
                       users, registrations,
                       beneficiaries, operations,
                       cache, readers, scans,
                       clock, refreshTokens, blacklist, issued, calls>>

\* the rest of fundWallet for request f: paystackService.initializeTransaction
\* with the amount in kobo and the same reference (ok = FALSE: the call throws
\* and the PENDING Transaction stays), then the response
fundWalletInitialize(f, ok) ==
    /\ f \in funding
    /\ funding' = funding \ {f}
    /\ gateway' = IF ok THEN gateway \cup {[reference |-> f.reference,
                                           amount |-> toKobo(f.amount)]}
                  ELSE gateway
    /\ UNCHANGED <<wallets, transactions, donations, jobs, notifications, deliveries,
                   webhookResult, mdResults, credited, faults,
                   users, registrations,
                   beneficiaries, operations,
                   cache, readers, scans,
                   clock, refreshTokens, blacklist, issued, calls>>

\* ---------------------------------------------------------------- webhook
\* HMAC-SHA512 as an injective keyed function of the body.
Hmac(key, body) == [key |-> key, body |-> body]

verifyWebhookSignatureKeyOnly(signature, body) ==
    signature.key = PAYSTACK_SECRET_KEY

verifyWebhookSignature(signature, body) ==
    Hmac(PAYSTACK_SECRET_KEY, body) = signature

\* The parsed request body: event.event, and event.data with its reference and
\* amount.  A body may come without event.data (hasData = FALSE) or with an
\* event.data that has no reference (reference = NoReference).
WebhookBodies ==
    [event : EventTypes, reference : FundRefs \cup {NoReference},
     amount : KoboAmounts, hasData : {TRUE}]
    \cup [event : EventTypes, reference : {NoReference}, amount : {0}, hasData : {FALSE}]

\* the body the sender signed, when the request body was altered afterwards
SignedBody(body) == [body EXCEPT !.amount = @ + 1]

\* the x-paystack-signature header: absent, or one signature, made under the
\* secret or under another key, of this body or of the body before alteration
SignatureHeaders(body) ==
    {{}} \cup {{Hmac(key, b)} : key \in SignatureKeys, b \in {body, SignedBody(body)}}

Result(status, reference, outcome) ==
    [status |-> status, outcome |-> outcome, reference |-> reference]

\* a request that has been answered
Finished == [pc |-> "done", reference |-> NoReference, walletId |-> 0, amount |-> 0]

AlreadyProcessedNever(transaction) == FALSE

\* the events whose case of the switch dereferences event.data
ReadsData(event) == event \in {"charge.success", "transfer.success", "transfer.failed"}

UnknownReferenceRejected(reference) ==
    Result(404, reference, "No transaction found for reference")

\* handleChargeSuccess found no Transaction under the reference: it logs and
\* returns, and handleWebhook answers 200
UnknownReference(reference) ==
    Result(200, reference, "No transaction found for reference")

\* the idempotency guard of handleChargeSuccess
AlreadyProcessed(transaction) == transaction.status = "SUCCESS"

\* What handleWebhook answers before any write: the status and log line, or
\* NoResult when handleChargeSuccess goes on to its $transaction.
\* (readOk = FALSE: findUnique throws, which is caught and logged, as it is when
\* the reference is undefined.  Reading data.reference of an absent event.data
\* throws a TypeError outside every try, which the error middleware answers 500.)
WebhookAnswer(body, header, readOk) ==
    LET found == TransactionByReference(DB, body.reference)
        transaction == CHOOSE t \in found : TRUE
    IN  IF header = {} THEN Result(401, NoReference, "No signature provided")
        ELSE IF ~(\E s \in header : verifyWebhookSignature(s, body))
             THEN Result(401, NoReference, "Invalid webhook signature")
        ELSE IF ReadsData(body.event) /\ ~body.hasData
             THEN Result(500, NoReference, "Internal server error")
        ELSE IF body.event # "charge.success"
             THEN Result(200, NoReference, "Webhook received")
        ELSE IF ~readOk \/ body.reference = NoReference
             THEN Result(200, body.reference, "Failed to process charge success webhook")
        ELSE IF found = {}
             THEN UnknownReference(body.reference)
        ELSE IF AlreadyProcessed(transaction)
             THEN Result(200, body.reference, "Transaction already processed")
        ELSE NoResult

CreditedWalletFromMetadata(body, transaction) == body.metadata.wallet_id

\* where: { id: transaction.walletId }: the wallet handleChargeSuccess credits
CreditedWallet(body, transaction) == transaction.walletId

\* PaystackController.handleWebhook: signature check, dispatch on the event
\* type and, for charge.success, handleChargeSuccess up to its $transaction.
handleWebhook(body, header, readOk) ==
    LET answer == WebhookAnswer(body, header, readOk)
        transaction == CHOOSE t \in TransactionByReference(DB, body.reference) : TRUE
    IN  /\ Len(deliveries) < MaxDeliveries
        /\ IF answer = NoResult
           THEN /\ deliveries' = Append(deliveries,
                        [pc |-> "credit", reference |-> body.reference,
                         walletId |-> CreditedWallet(body, transaction),
                         amount |-> fromKobo(body.amount)])
                /\ UNCHANGED webhookResult
           ELSE /\ deliveries' = Append(deliveries, Finished)
                /\ webhookResult' = answer
        /\ UNCHANGED <<wallets, transactions, donations, jobs, notifications,
                       mdResults, credited, faults,
                       funding, gateway,
                       users, registrations,
                       beneficiaries, operations,
                       cache, readers, scans,
                       clock, refreshTokens, blacklist, issued, calls>>

ChargeSuccessWritesNoCredit(reference, walletId, amount) ==
    <<[op |-> "updateStatus", reference |-> reference, status |-> "SUCCESS"]>>

ChargeSuccessWritesFailed(reference, walletId, amount) ==
    <<[op |-> "updateStatus", reference |-> reference, status |-> "FAILED"],
      [op |-> "increment", wallet |-> walletId, amount |-> amount]>>

\* the two writes of handleChargeSuccess's $transaction
ChargeSuccessWrites(reference, walletId, amount) ==
    <<[op |-> "updateStatus", reference |-> reference, status |-> "SUCCESS"],
      [op |-> "increment", wallet |-> walletId, amount |-> amount]>>

\* handleChargeSuccess's $transaction for delivery h, then the 200 response of
\* handleWebhook; an error of the transaction is caught and logged.
handleChargeSuccessCredit(h, k) ==
    LET d == deliveries[h]
        ws == ChargeSuccessWrites(d.reference, d.walletId, d.amount)
        D == RunTransaction(DB, ws, k)
    IN  /\ d.pc = "credit"
        /\ wallets' = D.wallets
        /\ transactions' = D.transactions
        /\ credited' = IF D.wallets # wallets
                       THEN [r \in DOMAIN credited \cup {d.reference} |->
                                IF r = d.reference THEN Credits(r) + 1 ELSE credited[r]]
                       ELSE credited
        /\ deliveries' = [deliveries EXCEPT ![h] = Finished]
        /\ webhookResult' =
                Result(200, d.reference,
                       IF Committed(DB, ws, k) THEN "Wallet credited via webhook"
                       ELSE "Failed to process charge success webhook")
        /\ UNCHANGED <<donations, jobs, notifications, mdResults, faults,
                       funding, gateway,
                       users, registrations,
                       beneficiaries, operations,
                       cache, readers, scans,
                       clock, refreshTokens, blacklist, issued, calls>>

\* ----------------------------------------------------------- makeDonation
InsufficientFundsNever(balance, amount) == FALSE

\* Number(donor.wallet.balance) < dto.amount
InsufficientFunds(balance, amount) == balance < amount

SelfDonationNever(donorId, beneficiaryId) == FALSE

\* donorId === dto.beneficiaryId
SelfDonation(donorId, beneficiaryId) == donorId = beneficiaryId

makeDonationOutcomeLookupFirst(donorId, beneficiaryId, amount) ==
    IF donorId \notin DOMAIN wallets THEN "Donor not found"
    ELSE IF amount < Naira(50) THEN "Donation amount must be greater than fifty naira"
    ELSE IF amount > Naira(50000) THEN "Donation amount cannot not exceed 50,000"
    ELSE IF InsufficientFunds(wallets[donorId], amount) THEN "Insufficient funds"
    ELSE IF SelfDonation(donorId, beneficiaryId) THEN "Cannot donate to yourself"
    ELSE "queued"

\* DonationService.makeDonation (the queued variant): the message of the error
\* thrown, or "queued".
makeDonationOutcome(donorId, beneficiaryId, amount) ==
    IF amount < Naira(50) THEN "Donation amount must be greater than fifty naira"
    ELSE IF amount > Naira(50000) THEN "Donation amount cannot not exceed 50,000"
    ELSE IF donorId \notin DOMAIN wallets THEN "Donor not found"
    ELSE IF InsufficientFunds(wallets[donorId], amount) THEN "Insufficient funds"
    ELSE IF SelfDonation(donorId, beneficiaryId) THEN "Cannot donate to yourself"
    ELSE "queued"

\* what makeDonation returns or throws: the status, and the id of the job added
MdResult(outcome, jobId) == [status |-> outcome, jobId |-> jobId]

\* donationQueue.add('process-donation', {donorId, dto})
NewJob(donorId, beneficiaryId, amount) ==
    [donorId |-> donorId, beneficiaryId |-> beneficiaryId, amount |-> amount,
     attemptsMade |-> 0, failedReason |-> "", pc |-> "waiting"]

makeDonation(donorId, beneficiaryId, amount) ==
    LET outcome == makeDonationOutcome(donorId, beneficiaryId, amount)
    IN  /\ Len(mdResults) < MaxRequests
        /\ mdResults' = Append(mdResults,
                MdResult(outcome, IF outcome = "queued" THEN Len(jobs) + 1 ELSE 0))
        /\ jobs' = IF outcome = "queued"
                   THEN Append(jobs, NewJob(donorId, beneficiaryId, amount))
                   ELSE jobs
        /\ UNCHANGED <<wallets, transactions, donations, notifications,
                       deliveries, webhookResult, credited, faults,
                       funding, gateway,
                       users, registrations,
                       beneficiaries, operations,
                       cache, readers, scans,
                       clock, refreshTokens, blacklist, issued, calls>>

\* --------------------------------------------------------- donationWorker
\* A step of the donation worker in which the store, the queue or the cache
\* fails (injected) or does not.
Fault(injected) ==
    /\ injected => faults < MaxFaults
    /\ faults' = faults + (IF injected THEN 1 ELSE 0)

Active == {j \in DOMAIN jobs : jobs[j].pc \notin {"waiting", "completed", "failed"}}

\* The processor threw: the attempt is counted, and the job waits for its next
\* attempt (backoff) or, with its attempts used up, is kept in the failed set.
FailedJobRetriedOnceMore(job, reason) ==
    [job EXCEPT !.attemptsMade = @ + 1,
                !.failedReason = reason,
                !.pc = IF job.attemptsMade + 1 < Attempts + 1 THEN "waiting" ELSE "failed"]

FailedJobNotCounted(job, reason) ==
    [job EXCEPT !.failedReason = reason, !.pc = "waiting"]

FailedJob(job, reason) ==
    [job EXCEPT !.attemptsMade = @ + 1,
                !.failedReason = reason,
                !.pc = IF job.attemptsMade + 1 < Attempts THEN "waiting" ELSE "failed"]

Failed(j, reason) == [jobs EXCEPT ![j] = FailedJob(jobs[j], reason)]

Goto(j, pc) == [jobs EXCEPT ![j].pc = pc]

\* removeOnComplete: a completed job is removed from the queue
Completed == [donorId |-> 0, beneficiaryId |-> 0, amount |-> 0,
              attemptsMade |-> 0, failedReason |-> "", pc |-> "completed"]

NotFoundNever(userId) == FALSE

\* !user || !user.wallet, for the result of findUnique by id with its wallet
NotFound(userId) == userId \notin DOMAIN wallets

\* The worker takes job j: findUnique of the donor with its wallet, and the
\* balance check.  (readOk = FALSE: the read throws.)
workerFindDonor(j, readOk) ==
    /\ jobs[j].pc = "waiting"
    /\ Cardinality(Active) < Concurrency
    /\ jobs' = IF ~readOk THEN Failed(j, "findUnique threw")
               ELSE IF NotFound(jobs[j].donorId)
                    THEN Failed(j, "Donor not found")
               ELSE IF InsufficientFunds(wallets[jobs[j].donorId], jobs[j].amount)
                    THEN Failed(j, "Insufficient funds")
               ELSE Goto(j, "findBeneficiary")
    /\ Fault(~readOk)
    /\ UNCHANGED <<wallets, transactions, donations, notifications,
                   deliveries, webhookResult, mdResults, credited,
                   funding, gateway,
                   users, registrations,
                   beneficiaries, operations,
                   cache, readers, scans,
                   clock, refreshTokens, blacklist, issued, calls>>

\* findUnique of the beneficiary with its wallet, and the self-donation check
workerFindBeneficiary(j, readOk) ==
    /\ jobs[j].pc = "findBeneficiary"
    /\ jobs' = IF ~readOk THEN Failed(j, "findUnique threw")
               ELSE IF NotFound(jobs[j].beneficiaryId)
                    THEN Failed(j, "Beneficiary not found")
               ELSE IF SelfDonation(jobs[j].donorId, jobs[j].beneficiaryId)
                    THEN Failed(j, "Cannot donate to yourself")
               ELSE Goto(j, "transaction")
    /\ Fault(~readOk)
    /\ UNCHANGED <<wallets, transactions, donations, notifications,
                   deliveries, webhookResult, mdResults, credited,
                   funding, gateway,
                   users, registrations,
                   beneficiaries, operations,
                   cache, readers, scans,
                   clock, refreshTokens, blacklist, issued, calls>>

\* the id of the Donation row an attempt creates (a fresh uuid)
DonationId(j) == <<j, jobs[j].attemptsMade + 1>>

DonationRow(id, donorId, beneficiaryId, amount) ==
    [id |-> id, donorId |-> donorId, beneficiaryId |-> beneficiaryId, amount |-> amount]

DonationTransaction(id, walletId, type, amount) ==
    [reference |-> DonationReference(id, type), walletId |-> walletId, type |-> type,
     amount |-> amount, status |-> "SUCCESS", donationId |-> id]

DonationWritesNoCredit(id, donorId, beneficiaryId, amount) ==
    <<[op |-> "decrement", wallet |-> donorId, amount |-> amount],
      [op |-> "createDonation", row |-> DonationRow(id, donorId, beneficiaryId, amount)],
      [op |-> "createTransaction", row |-> DonationTransaction(id, donorId, "DEBIT", amount)],
      [op |-> "createTransaction", row |-> DonationTransaction(id, beneficiaryId, "CREDIT", amount)]>>

DonationWritesPendingCredit(id, donorId, beneficiaryId, amount) ==
    <<[op |-> "decrement", wallet |-> donorId, amount |-> amount],
      [op |-> "increment", wallet |-> beneficiaryId, amount |-> amount],
      [op |-> "createDonation", row |-> DonationRow(id, donorId, beneficiaryId, amount)],
      [op |-> "createTransaction", row |-> DonationTransaction(id, donorId, "DEBIT", amount)],
      [op |-> "createTransaction",
       row |-> [DonationTransaction(id, beneficiaryId, "CREDIT", amount)
                    EXCEPT !.status = "PENDING"]]>>

DonationWritesFirstWalletDebited(id, donorId, beneficiaryId, amount) ==
    <<[op |-> "decrement", wallet |-> 1, amount |-> amount],
      [op |-> "increment", wallet |-> beneficiaryId, amount |-> amount],
      [op |-> "createDonation", row |-> DonationRow(id, donorId, beneficiaryId, amount)],
      [op |-> "createTransaction", row |-> DonationTransaction(id, donorId, "DEBIT", amount)],
      [op |-> "createTransaction", row |-> DonationTransaction(id, beneficiaryId, "CREDIT", amount)]>>

\* the five writes of the worker's $transaction, in the order of the source
DonationWrites(id, donorId, beneficiaryId, amount) ==
    <<[op |-> "decrement", wallet |-> donorId, amount |-> amount],
      [op |-> "increment", wallet |-> beneficiaryId, amount |-> amount],
      [op |-> "createDonation", row |-> DonationRow(id, donorId, beneficiaryId, amount)],
      [op |-> "createTransaction", row |-> DonationTransaction(id, donorId, "DEBIT", amount)],
      [op |-> "createTransaction", row |-> DonationTransaction(id, beneficiaryId, "CREDIT", amount)]>>

\* prisma.$transaction of the worker (k < 5: write k+1 throws)
workerTransaction(j, k) ==
    LET job == jobs[j]
        ws == DonationWrites(DonationId(j), job.donorId, job.beneficiaryId, job.amount)
        D == RunTransaction(DB, ws, k)
    IN  /\ job.pc = "transaction"
        /\ wallets' = D.wallets
        /\ donations' = D.donations
        /\ transactions' = D.transactions
        /\ jobs' = IF Committed(DB, ws, k) THEN Goto(j, "count")
                   ELSE Failed(j, "$transaction threw")
        /\ Fault(k < 5)
        /\ UNCHANGED <<notifications, deliveries, webhookResult, mdResults, credited,
                       funding, gateway,
                       users, registrations,
                       beneficiaries, operations,
                       cache, readers, scans,
                       clock, refreshTokens, blacklist, issued, calls>>

shouldSendThankYou(donationCount) == donationCount \in NOTIFICATION_MILESTONES

\* prisma.donation.count({donorId, beneficiaryId})
DonationCount(donorId, beneficiaryId) ==
    Cardinality({d \in donations : d.donorId = donorId /\ d.beneficiaryId = beneficiaryId})

\* notificationQueue.add('send-thank-you', {..., donationCount, donorId, beneficiaryId})
NewNotification(donorId, beneficiaryId, donationCount) ==
    [donorId |-> donorId, beneficiaryId |-> beneficiaryId, donationCount |-> donationCount,
     attemptsMade |-> 0, failedReason |-> "", pc |-> "waiting"]

NotificationEnqueueFailedRethrown(j) == Failed(j, "notificationQueue.add threw")

\* notificationQueue.add threw: the catch around it logs the error and the
\* processor goes on to the cache invalidation
NotificationEnqueueFailed(j) == Goto(j, "invalidate")

\* the count of the pair's donations (readOk = FALSE: it throws and the job
\* fails) and, at a milestone, notificationQueue.add (addOk = FALSE: it throws,
\* which is caught and logged)
workerCount(j, readOk, addOk) ==
    LET job == jobs[j]
        donationCount == DonationCount(job.donorId, job.beneficiaryId)
    IN  /\ job.pc = "count"
        /\ jobs' = IF ~readOk THEN Failed(j, "count threw")
                   ELSE IF shouldSendThankYou(donationCount) /\ ~addOk
                        THEN NotificationEnqueueFailed(j)
                   ELSE Goto(j, "invalidate")
        /\ notifications' =
              IF readOk /\ shouldSendThankYou(donationCount) /\ addOk
              THEN Append(notifications,
                          NewNotification(job.donorId, job.beneficiaryId, donationCount))
              ELSE notifications
        /\ Fault(~readOk \/ (shouldSendThankYou(donationCount) /\ ~addOk))
        /\ UNCHANGED <<wallets, transactions, donations, deliveries,
                       webhookResult, mdResults, credited,
                       funding, gateway,
                       users, registrations,
                       beneficiaries, operations,
                       cache, readers, scans,
                       clock, refreshTokens, blacklist, issued, calls>>

ScannedKeysOfDonor(donorId, beneficiaryId) ==
    {key \in DOMAIN cache : key.prefix = "donations" /\ key.userId = donorId}

\* the keys of the invalidation: those redis.keys finds under
\* donations:{donorId}:*, donations:{beneficiaryId}:*, donation_count:* and
\* users:* ...
ScannedKeys(donorId, beneficiaryId) ==
    {key \in DOMAIN cache :
        \/ key.prefix = "donations" /\ key.userId \in {donorId, beneficiaryId}
        \/ key.prefix = "donation_count"
        \/ key.prefix = "users"}

\* ... and wallet:{id} and user:{id} of the donor and of the beneficiary
FixedKeys(donorId, beneficiaryId) ==
    {CacheKey(prefix, NoDonation, u) : prefix \in {"wallet", "user"},
                                      u \in {donorId, beneficiaryId}}

\* the cache invalidation, first part: the four redis.keys scans (redisOk =
\* FALSE: one of them throws and the job fails)
workerInvalidate(j, redisOk) ==
    /\ jobs[j].pc = "invalidate"
    /\ jobs' = IF redisOk THEN Goto(j, "del")
               ELSE Failed(j, "redis threw")
    /\ scans' = IF redisOk
                THEN [scans EXCEPT ![j] = ScannedKeys(jobs[j].donorId, jobs[j].beneficiaryId)]
                ELSE scans
    /\ Fault(~redisOk)
    /\ UNCHANGED <<wallets, transactions, donations, notifications,
                   deliveries, webhookResult, mdResults, credited,
                   funding, gateway,
                   users, registrations,
                   beneficiaries, operations,
                   cache, readers,
                   clock, refreshTokens, blacklist, issued, calls>>

\* the cache invalidation, second part: redis.del of the keys found and of
\* the wallet and user keys (redisOk = FALSE: it throws and the job fails),
\* then the return of the result, which completes the job
workerDel(j, redisOk) ==
    LET deleted == scans[j] \cup FixedKeys(jobs[j].donorId, jobs[j].beneficiaryId)
    IN  /\ jobs[j].pc = "del"
        /\ jobs' = IF redisOk THEN [jobs EXCEPT ![j] = Completed]
                   ELSE Failed(j, "redis threw")
        /\ cache' = IF redisOk THEN Del(cache, deleted) ELSE cache
        /\ scans' = [scans EXCEPT ![j] = {}]
        /\ Fault(~redisOk)
        /\ UNCHANGED <<wallets, transactions, donations, notifications,
                       deliveries, webhookResult, mdResults, credited,
                       funding, gateway,
                       users, registrations,
                       beneficiaries, operations,
                       readers,
                       clock, refreshTokens, blacklist, issued, calls>>

\* ----------------------------------------------------- notificationWorker
\* The notification worker takes job n and sends the email (sendOk = FALSE:
\* sendThankYouEmail throws, the processor logs and rethrows).  A job that
\* succeeded is removed from the queue: it stays here as a "completed" mark of
\* what was sent.
notificationWorker(n, sendOk) ==
    /\ notifications[n].pc = "waiting"
    /\ notifications' =
          [notifications EXCEPT ![n] =
              IF sendOk THEN [@ EXCEPT !.pc = "completed", !.attemptsMade = 0,
                                       !.failedReason = ""]
              ELSE FailedJob(@, "sendThankYouEmail threw")]
    /\ UNCHANGED <<wallets, transactions, donations, jobs, deliveries,
                   webhookResult, mdResults, credited, faults,
                   funding, gateway,
                   users, registrations,
                   beneficiaries, operations,
                   cache, readers, scans,
                   clock, refreshTokens, blacklist, issued, calls>>

\* ------------------------------------------------------------------ Next
NextPayments ==
    \/ register
    \/ \E u \in UserIds, a \in FundAmounts, n \in 1..MaxRefs, k \in 0..1 :
            fundWallet(u, a, n, k)
    \/ \E f \in funding, ok \in BOOLEAN : fundWalletInitialize(f, ok)
    \/ \E body \in WebhookBodies, ok \in BOOLEAN :
            \E header \in SignatureHeaders(body) : handleWebhook(body, header, ok)
    \/ \E h \in DOMAIN deliveries, k \in 0..2 : handleChargeSuccessCredit(h, k)

NextDonations ==
    \/ \E u \in RequestUserIds, b \in RequestUserIds, a \in DonationAmounts :
            makeDonation(u, b, a)
    \/ \E j \in DOMAIN jobs, ok \in BOOLEAN : workerFindDonor(j, ok)
    \/ \E j \in DOMAIN jobs, ok \in BOOLEAN : workerFindBeneficiary(j, ok)
    \/ \E j \in DOMAIN jobs, k \in 0..5 : workerTransaction(j, k)
    \/ \E j \in DOMAIN jobs, ok \in BOOLEAN, addOk \in BOOLEAN : workerCount(j, ok, addOk)
    \/ \E j \in DOMAIN jobs, ok \in BOOLEAN : workerInvalidate(j, ok)
    \/ \E j \in DOMAIN jobs, ok \in BOOLEAN : workerDel(j, ok)
    \/ \E n \in DOMAIN notifications, ok \in BOOLEAN : notificationWorker(n, ok)

\* concurrent register requests
NextRegistration ==
    \/ \E email \in Emails : registerCheck(email)
    \/ \E r \in DOMAIN registrations, k \in 0..2 : registerCreate(r, k)

\* concurrent beneficiary requests of registered users
NextBeneficiaries ==
    \/ \E u \in Owners, b \in BeneficiaryIds, n \in {NoNickname, "mum"} :
            addBeneficiary(u, b, n)
    \/ \E o \in DOMAIN operations : addBeneficiaryCreate(o)
    \/ \E u \in Owners, b \in BeneficiaryIds : removeBeneficiary(u, b)
    \/ \E o \in DOMAIN operations : removeBeneficiaryDelete(o)
    \/ \E u \in Owners, b \in BeneficiaryIds, n \in Nicknames : updateNickname(u, b, n)
    \/ \E o \in DOMAIN operations : updateNicknameUpdate(o)

\* the cached reads of the users in Readers
Readers == {1, 2}

\* the donation ids getDonation is asked for: the first and the second
\* attempt of the first job
DonationIds == {<<1, 1>>, <<1, 2>>}

NextReads ==
    \/ \E u \in Readers : getUserWallet(u)
    \/ \E u \in Readers : getUserById(u)
    \/ getUsers
    \/ \E u \in Readers : getDonations(u)
    \/ \E id \in DonationIds, u \in UserIds : getDonation(id, u)
    \/ \E r \in DOMAIN readers : readerSetex(r)
    \/ \E key \in DOMAIN cache : cacheExpire(key)

Next ==
    NextPayments \/ NextDonations \/ NextRegistration \/ NextBeneficiaries \/ NextReads
        \/ NextAuth

\* the whole system
Spec == Init /\ [][Next]_vars

\* registration, funding and webhook reconciliation
SpecPayments == Init /\ [][NextPayments]_vars

\* A store left by registrations and webhook credits: every user registered,
\* the wallets of the first two users either never funded or credited once, by
\* the charge of a fundWallet request of that amount.
FundedTransaction(u, amount) ==
    [PendingTransaction(u, amount, generateReference("FUND", u)) EXCEPT !.status = "SUCCESS"]

InitFunded ==
    /\ wallets \in [UserIds -> {0, Naira(100), Naira(200)}]
    /\ wallets[1] > 0
    /\ \A u \in UserIds : u > 2 => wallets[u] = 0
    /\ transactions = {FundedTransaction(u, wallets[u]) : u \in {v \in DOMAIN wallets : wallets[v] > 0}}
    /\ credited = [r \in {t.reference : t \in transactions} |-> 1]
    /\ donations = {}
    /\ jobs = <<>>
    /\ notifications = <<>>
    /\ deliveries = <<>>
    /\ webhookResult = NoResult
    /\ mdResults = <<>>
    /\ faults = 0
    /\ funding = {}
    /\ gateway = {}
    /\ users = [u \in UserIds |-> EmailOf[u]]
    /\ registrations = <<>>
    /\ beneficiaries = {}
    /\ operations = <<>>
    /\ cache = <<>>
    /\ readers = <<>>
    /\ scans = [j \in 1..MaxRequests |-> {}]
    /\ clock = 0
    /\ refreshTokens = <<>>
    /\ blacklist = {}
    /\ issued = {}
    /\ calls = <<>>

\* donations over funded wallets
SpecDonations == InitFunded /\ [][NextDonations]_vars

\* concurrent register requests on an empty store
SpecRegistration == Init /\ [][NextRegistration]_vars

\* the steps of the donation worker on job j
WorkerStep(j) ==
    \/ \E ok \in BOOLEAN : workerFindDonor(j, ok)
    \/ \E ok \in BOOLEAN : workerFindBeneficiary(j, ok)
    \/ \E k \in 0..5 : workerTransaction(j, k)
    \/ \E ok \in BOOLEAN, addOk \in BOOLEAN : workerCount(j, ok, addOk)
    \/ \E ok \in BOOLEAN : workerInvalidate(j, ok)
    \/ \E ok \in BOOLEAN : workerDel(j, ok)

\* One funded donor, whose requests name a registered or an unknown
\* beneficiary, and a running worker: a job that is waiting (its backoff
\* elapses) or active is eventually moved on by the worker.
InitQueue ==
    /\ InitFunded
    /\ wallets = [u \in UserIds |-> IF u = 1 THEN Naira(100) ELSE 0]

NextQueue ==
    \/ \E b \in {2, MaxUsers + 1}, a \in {Naira(60), Naira(100)} : makeDonation(1, b, a)
    \/ \E j \in DOMAIN jobs : WorkerStep(j)
    \/ \E n \in DOMAIN notifications, ok \in BOOLEAN : notificationWorker(n, ok)

SpecQueueFair ==
    /\ InitQueue
    /\ [][NextQueue]_vars
    /\ \A j \in 1..MaxRequests : WF_vars(j \in DOMAIN jobs /\ WorkerStep(j))

\* concurrent beneficiary requests over a store with every user registered
SpecBeneficiaries == InitQueue /\ [][NextBeneficiaries]_vars

\* logins, token refreshes, logouts and authenticated requests of two users,
\* the hourly cleanup, and the passing of time
SpecAuth == InitQueue /\ [][NextAuth]_vars

\* one donation of user 1 to user 2, and cached reads of the two users
NextCache ==
    \/ jobs = <<>> /\ makeDonation(1, 2, Naira(100))
    \/ \E j \in DOMAIN jobs : WorkerStep(j)
    \/ NextReads

SpecCache == InitQueue /\ [][NextCache]_vars

\* the charge.success event the gateway sends for a transaction it initialized
ChargeSuccess(g) ==
    [event |-> "charge.success", reference |-> g.reference, amount |-> g.amount,
     hasData |-> TRUE]

\* user 1 funds its wallet again, the gateway reports the charge, and the
\* users' wallets and profiles are read through the cache
NextCacheCredit ==
    \/ \E n \in 1..MaxRefs, k \in 0..1 : fundWallet(1, Naira(100), n, k)
    \/ \E f \in funding, ok \in BOOLEAN : fundWalletInitialize(f, ok)
    \/ \E g \in gateway :
            handleWebhook(ChargeSuccess(g),
                          {[key |-> PAYSTACK_SECRET_KEY, body |-> ChargeSuccess(g)]}, TRUE)
    \/ \E h \in DOMAIN deliveries, k \in 0..2 : handleChargeSuccessCredit(h, k)
    \/ NextReads

SpecCacheCredit == InitQueue /\ [][NextCacheCredit]_vars

\* one donation of user 1 to user 2, and getDonation calls of every user
NextGetDonation ==
    \/ jobs = <<>> /\ makeDonation(1, 2, Naira(100))
    \/ \E j \in DOMAIN jobs : WorkerStep(j)
    \/ \E id \in DonationIds, u \in UserIds : getDonation(id, u)
    \/ \E r \in DOMAIN readers : readerSetex(r)
    \/ \E key \in DOMAIN cache : cacheExpire(key)

SpecGetDonation == InitQueue /\ [][NextGetDonation]_vars

\* user 1 funds its wallet again and donates once to user 2: every writer of
\* Transaction rows
NextLedger ==
    \/ \E n \in 1..MaxRefs, k \in 0..1 : fundWallet(1, Naira(100), n, k)
    \/ \E f \in funding, ok \in BOOLEAN : fundWalletInitialize(f, ok)
    \/ \E g \in gateway :
            handleWebhook(ChargeSuccess(g),
                          {[key |-> PAYSTACK_SECRET_KEY, body |-> ChargeSuccess(g)]}, TRUE)
    \/ \E h \in DOMAIN deliveries, k \in 0..2 : handleChargeSuccessCredit(h, k)
    \/ jobs = <<>> /\ makeDonation(1, 2, Naira(100))
    \/ \E j \in DOMAIN jobs : WorkerStep(j)

SpecLedger == InitQueue /\ [][NextLedger]_vars

\* a charge.success event under any funding reference, whose metadata names
\* wallet w
ChargeSuccessWithMetadata(reference, amount, w) ==
    [event |-> "charge.success", reference |-> reference, amount |-> amount,
     hasData |-> TRUE, metadata |-> [wallet_id |-> w]]

\* users 1 and 2 fund their wallets under new references; the events name
\* the wallet of user 2 or 3
NextFunding ==
    \/ \E u \in {1, 2}, a \in FundAmounts, n \in 2..3, k \in 0..1 :
            fundWallet(u, a, n, k)
    \/ \E f \in funding, ok \in BOOLEAN : fundWalletInitialize(f, ok)
    \/ \E n \in 2..3, w \in {2, 3} :
          LET body == ChargeSuccessWithMetadata(generateReference("FUND", n),
                                                toKobo(Naira(100)), w)
          IN  handleWebhook(body, {[key |-> PAYSTACK_SECRET_KEY, body |-> body]}, TRUE)
    \/ \E h \in DOMAIN deliveries, k \in 0..2 : handleChargeSuccessCredit(h, k)

SpecFunding == InitQueue /\ [][NextFunding]_vars

\* ------------------------------------------------ two jobs of the worker
\* Two donors funded with 100 naira each and two beneficiaries: the two jobs
\* the worker processes (concurrency 5) are on the same pair, share a wallet,
\* or are on disjoint pairs.
PairWallets == <<Naira(100), 0, Naira(100), 0>>

InitPairs ==
    /\ wallets = PairWallets
    /\ transactions = {FundedTransaction(u, wallets[u]) : u \in {v \in DOMAIN wallets : wallets[v] > 0}}
    /\ credited = [r \in {t.reference : t \in transactions} |-> 1]
    /\ donations = {}
    /\ jobs = <<>>
    /\ notifications = <<>>
    /\ deliveries = <<>>
    /\ webhookResult = NoResult
    /\ mdResults = <<>>
    /\ faults = 0
    /\ funding = {}
    /\ gateway = {}
    /\ users = [u \in DOMAIN PairWallets |-> EmailOf[u]]
    /\ registrations = <<>>
    /\ beneficiaries = {}
    /\ operations = <<>>
    /\ cache = <<>>
    /\ readers = <<>>
    /\ scans = [j \in 1..MaxRequests |-> {}]
    /\ clock = 0
    /\ refreshTokens = <<>>
    /\ blacklist = {}
    /\ issued = {}
    /\ calls = <<>>

NextPairs ==
    \/ \E u \in {1, 3}, b \in {2, 4} : makeDonation(u, b, Naira(100))
    \/ \E j \in DOMAIN jobs : WorkerStep(j)
    \/ \E n \in DOMAIN notifications, ok \in BOOLEAN : notificationWorker(n, ok)

SpecPairs == InitPairs /\ [][NextPairs]_vars

\* the data of job j: a completed job is known by the Donation it created
JobData(j) ==
    IF jobs[j].pc = "completed" /\ {d \in donations : d.id[1] = j} # {}
    THEN LET d == CHOOSE d \in donations : d.id[1] = j
         IN  [donorId |-> d.donorId, beneficiaryId |-> d.beneficiaryId, amount |-> d.amount]
    ELSE [donorId |-> jobs[j].donorId, beneficiaryId |-> jobs[j].beneficiaryId,
          amount |-> jobs[j].amount]

\* The processor run on one job alone, from the balances W and the set C of
\* jobs that committed: the lookups and checks read the balances the
\* transaction then writes.
ProcessAlone(S, j) ==
    LET job == JobData(j)
    IN  IF \/ job.donorId \notin DOMAIN S.wallets
           \/ S.wallets[job.donorId] < job.amount
           \/ job.beneficiaryId \notin DOMAIN S.wallets
           \/ job.donorId = job.beneficiaryId
        THEN S
        ELSE [wallets |-> [S.wallets EXCEPT ![job.donorId] = @ - job.amount,
                                            ![job.beneficiaryId] = @ + job.amount],
              committed |-> S.committed \cup {j}]

\* the jobs of the queue processed one at a time, in the given order
RECURSIVE OneAtATime(_, _)
OneAtATime(S, order) ==
    IF order = <<>> THEN S
    ELSE OneAtATime(ProcessAlone(S, Head(order)), Tail(order))

\* the rows a set of jobs that each committed once leaves in the store
RowsOf(committed) ==
    [donations |-> {DonationRow(<<j, 1>>, JobData(j).donorId, JobData(j).beneficiaryId,
                                JobData(j).amount) : j \in committed},
     transactions |->
        {DonationTransaction(<<j, 1>>, JobData(j).donorId, "DEBIT", JobData(j).amount) :
             j \in committed}
        \cup {DonationTransaction(<<j, 1>>, JobData(j).beneficiaryId, "CREDIT", JobData(j).amount) :
             j \in committed}]

\* the state the store is in equals the one the order leaves
SameAsOneAtATime(order) ==
    LET S == OneAtATime([wallets |-> PairWallets, committed |-> {}], order)
    IN  /\ wallets = S.wallets
        /\ donations = RowsOf(S.committed).donations
        /\ {t \in transactions : t.reference.prefix = "DON"} = RowsOf(S.committed).transactions

\* every job is completed or failed
Settled == \A j \in DOMAIN jobs : jobs[j].pc \in {"completed", "failed"}

\* ================================================================ claims
RECURSIVE SumAmounts(_)
\* the sum of the amounts of a set of Transaction rows
SumAmounts(S) ==
    IF S = {} THEN 0
    ELSE LET t == CHOOSE x \in S : TRUE IN t.amount + SumAmounts(S \ {t})

\* SUCCESS credits minus SUCCESS debits of a wallet
LedgerBalance(walletId) ==
    SumAmounts({t \in transactions :
                    t.walletId = walletId /\ t.status = "SUCCESS" /\ t.type = "CREDIT"})
    - SumAmounts({t \in transactions :
                    t.walletId = walletId /\ t.status = "SUCCESS" /\ t.type = "DEBIT"})

DonationsOfJob(j) == {d \in donations : d.id[1] = j}

TransactionsOfDonation(d) == {t \in transactions : t.donationId = d.id}

\* C1: every step that commits a donation adds one Donation row, lowers the
\* donor's balance by exactly its amount, raises the beneficiary's balance by
\* exactly the same amount, keeps the sum of the two, and changes no other wallet.
C1_TransferConservation ==
    [][donations' # donations =>
        \E d \in donations' \ donations :
            /\ donations' = donations \cup {d}
            /\ DOMAIN wallets' = DOMAIN wallets
            /\ wallets'[d.donorId] = wallets[d.donorId] - d.amount
            /\ wallets'[d.beneficiaryId] = wallets[d.beneficiaryId] + d.amount
            /\ wallets'[d.donorId] + wallets'[d.beneficiaryId]
                   = wallets[d.donorId] + wallets[d.beneficiaryId]
            /\ \A u \in DOMAIN wallets \ {d.donorId, d.beneficiaryId} :
                   wallets'[u] = wallets[u]]_vars

\* C1 witness: a donation job has completed while a third wallet exists.
C1_Witness ==
    /\ \E j \in DOMAIN jobs : jobs[j].pc = "completed"
    /\ \E d \in donations : DOMAIN wallets \ {d.donorId, d.beneficiaryId} # {}

\* C2: every Donation row has exactly two Transaction rows referencing it, both
\* SUCCESS with the donation's amount: a DEBIT on the donor's wallet under
\* DON-{id}-DEBIT and a CREDIT on the beneficiary's wallet under DON-{id}-CREDIT.
C2_TwoTransactionsPerDonation ==
    \A d \in donations :
        /\ Cardinality(TransactionsOfDonation(d)) = 2
        /\ \A t \in TransactionsOfDonation(d) : t.status = "SUCCESS" /\ t.amount = d.amount
        /\ \E t \in TransactionsOfDonation(d) :
              /\ t.type = "DEBIT"
              /\ t.walletId = d.donorId
              /\ t.reference = [prefix |-> "DON", id |-> d.id, suffix |-> "DEBIT"]
        /\ \E t \in TransactionsOfDonation(d) :
              /\ t.type = "CREDIT"
              /\ t.walletId = d.beneficiaryId
              /\ t.reference = [prefix |-> "DON", id |-> d.id, suffix |-> "CREDIT"]

\* C2 witness: two Donation rows, four donation Transactions.
C2_Witness ==
    /\ Cardinality(donations) = 2
    /\ Cardinality({t \in transactions : t.donationId # NoDonation}) = 4

\* C3: every wallet's balance equals its SUCCESS credits minus its SUCCESS debits.
C3_BalanceEqualsLedger ==
    \A u \in DOMAIN wallets : wallets[u] = LedgerBalance(u)

\* C4: no wallet balance is ever negative.
C4_NoNegativeBalance ==
    \A u \in DOMAIN wallets : wallets[u] >= 0

\* C5: no enqueued job creates more than one Donation, over all its attempts.
C5_JobAppliedAtMostOnce ==
    \A j \in DOMAIN jobs : Cardinality(DonationsOfJob(j)) <= 1

\* C6: a signed charge.success delivery that arrives when the Transaction of
\* its reference is already SUCCESS is answered 200 in that step, without
\* entering the credit, and leaves every wallet and every Transaction as it was;
\* and a SUCCESS Transaction stays as it is.
C6_SecondDeliveryNoOp ==
    [][\A t \in transactions :
          t.status = "SUCCESS" =>
            /\ t \in transactions'
            /\ Len(deliveries') = Len(deliveries) + 1 =>
                 LET d == deliveries'[Len(deliveries')]
                 IN  /\ d.reference # t.reference
                     /\ (d = Finished /\ webhookResult'.reference = t.reference)
                        => /\ webhookResult'.status = 200
                           /\ wallets' = wallets
                           /\ transactions' = transactions
                           /\ credited' = credited]_vars

\* C6 witness: a delivery was answered "already processed" after one credit.
C6_Witness ==
    /\ webhookResult.outcome = "Transaction already processed"
    /\ webhookResult.status = 200
    /\ Credits(webhookResult.reference) = 1
    /\ \A h \in DOMAIN deliveries : deliveries[h] = Finished

\* C7: a wallet is credited at most once per reference.
C7_CreditedOncePerReference ==
    \A r \in DOMAIN credited : credited[r] <= 1

\* C8: the five writes of the transfer appear together or not at all: every
\* step either leaves wallets, Donations and Transactions untouched (a failed
\* transfer among them) or debits the donor, credits the beneficiary, and adds
\* the Donation, its DEBIT Transaction and its CREDIT Transaction.
C8_TransferAllOrNothing ==
    [][\/ /\ wallets' = wallets
          /\ donations' = donations
          /\ transactions' = transactions
       \/ \E d \in donations' \ donations :
            /\ donations' = donations \cup {d}
            /\ wallets' = [wallets EXCEPT ![d.donorId] = @ - d.amount,
                                          ![d.beneficiaryId] = @ + d.amount]
            /\ transactions \subseteq transactions'
            /\ Cardinality(transactions' \ transactions) = 2
            /\ \A t \in transactions' \ transactions : t.donationId = d.id
            /\ {t.type : t \in transactions' \ transactions} = {"DEBIT", "CREDIT"}]_vars

\* C8 witness: a job whose $transaction threw sits beside an untouched store.
C8_Witness ==
    /\ \E j \in DOMAIN jobs :
          /\ jobs[j].failedReason = "$transaction threw"
          /\ DonationsOfJob(j) = {}
    /\ donations = {}
    /\ \A t \in transactions : t.donationId = NoDonation

\* C9: a gateway-funding Transaction is SUCCESS if and only if its wallet has
\* received the credit of its reference.
C9_StatusIffCredited ==
    \A t \in transactions :
        t.donationId = NoDonation =>
            (t.status = "SUCCESS" <=> Credits(t.reference) >= 1)

\* C9 witness: a webhook has credited a wallet and its Transaction is SUCCESS.
C9_Witness ==
    \E t \in transactions :
        /\ t.donationId = NoDonation
        /\ t.status = "SUCCESS"
        /\ Credits(t.reference) = 1
        /\ wallets[t.walletId] > 0

\* C10: a transfer whose amount exceeds the donor's balance fails and changes
\* no wallet, Donation or Transaction: makeDonation enqueues a job only when the
\* balance covers the amount and never writes to the store, and a job the
\* worker takes while the balance is below its amount has that attempt failed
\* with the store untouched.
C10_InsufficientFundsNoEffect ==
    [][/\ \A j \in DOMAIN jobs :
            (/\ jobs[j].pc = "waiting"
             /\ jobs'[j] # jobs[j]
             /\ wallets[jobs[j].donorId] < jobs[j].amount)
            => /\ jobs'[j].pc \in {"waiting", "failed"}
               /\ jobs'[j].attemptsMade = jobs[j].attemptsMade + 1
               /\ wallets' = wallets
               /\ donations' = donations
               /\ transactions' = transactions
       /\ Len(mdResults') > Len(mdResults)
            => /\ wallets' = wallets
               /\ donations' = donations
               /\ transactions' = transactions
               /\ mdResults'[Len(mdResults')].status = "Insufficient funds" => jobs' = jobs
               /\ Len(jobs') > Len(jobs) =>
                    wallets[jobs'[Len(jobs')].donorId] >= jobs'[Len(jobs')].amount]_vars

\* C10 witness: a job accepted by makeDonation failed late on the balance check.
C10_Witness ==
    \E j \in DOMAIN jobs :
        /\ jobs[j].failedReason = "Insufficient funds"
        /\ wallets[jobs[j].donorId] < jobs[j].amount
        /\ DonationsOfJob(j) = {}

\* C11: a makeDonation call of a user to themselves, with an amount makeDonation
\* accepts, fails with 'Cannot donate to yourself' whatever the user's balance,
\* enqueues no job and changes no wallet, Donation or Transaction.
C11_SelfTransferError ==
    [][\A u \in DOMAIN wallets, a \in DonationAmounts :
          (a >= Naira(50) /\ makeDonation(u, u, a)) =>
              /\ mdResults'[Len(mdResults')].status = "Cannot donate to yourself"
              /\ jobs' = jobs
              /\ wallets' = wallets
              /\ donations' = donations
              /\ transactions' = transactions]_vars

\* C12: no Donation row has its donor as its beneficiary, and a Donation row,
\* once created, is never modified or deleted.
C12_NoSelfDonationRow ==
    [][/\ \A d \in donations' : d.donorId # d.beneficiaryId
       /\ donations \subseteq donations'
       /\ \A d \in donations' \ donations : \A e \in donations : e.id # d.id]_vars

\* C12 witness: a Donation row exists and a request to donate to oneself was
\* rejected.
C12_Witness ==
    /\ donations # {}
    /\ \E i \in DOMAIN mdResults : mdResults[i].status = "Cannot donate to yourself"

\* C13: each milestone of a donor-beneficiary pair produces at most one
\* 'send-thank-you' job (looked at while every balance covers its transfers and
\* no job has been retried after its commit).
C13_OneNotificationPerMilestone ==
    (/\ \A u \in DOMAIN wallets : wallets[u] >= 0
     /\ faults = 0)
    => \A m, n \in DOMAIN notifications :
        (/\ notifications[m].donorId = notifications[n].donorId
         /\ notifications[m].beneficiaryId = notifications[n].beneficiaryId
         /\ notifications[m].donationCount = notifications[n].donationCount)
        => m = n

\* C14: a notification failure never fails, retries or rolls back a donation.
\* A step of a donation job at its count-and-notify stage leaves the committed
\* transfer in place and fails the job only when the count itself threw, never
\* because notificationQueue.add threw; and a step of the notification worker
\* completes its notification job or fails that job's attempt, and changes no
\* donation job, wallet, Donation or Transaction.
C14_NotificationFailureIsolated ==
    [][/\ \A j \in DOMAIN jobs :
            (jobs[j].pc = "count" /\ jobs'[j] # jobs[j]) =>
                /\ wallets' = wallets
                /\ donations' = donations
                /\ transactions' = transactions
                /\ \/ /\ jobs'[j].pc = "invalidate"
                      /\ jobs'[j].attemptsMade = jobs[j].attemptsMade
                   \/ jobs'[j].failedReason = "count threw"
       /\ \A n \in DOMAIN notifications :
            notifications'[n] # notifications[n] =>
                /\ jobs' = jobs
                /\ wallets' = wallets
                /\ donations' = donations
                /\ transactions' = transactions
                /\ \/ notifications'[n].pc = "completed"
                   \/ /\ notifications'[n].attemptsMade = notifications[n].attemptsMade + 1
                      /\ notifications'[n].pc \in {"waiting", "failed"}]_vars

\* C14 witness: a notification job has failed all its attempts while both
\* donations of its pair stay committed and their jobs completed.
C14_Witness ==
    /\ \E n \in DOMAIN notifications : notifications[n].pc = "failed"
    /\ Cardinality(donations) = 2
    /\ \A j \in DOMAIN jobs : jobs[j].pc = "completed"

\* the jobs of a queue across one step: no job is attempted more than 3 times,
\* a job is in the failed set exactly when its 3rd attempt has failed and then
\* stays there as it is, a removed (completed) job stays removed, and no job
\* disappears from the queue
AtMostThreeDeliveries(queue, queueNext) ==
    /\ Len(queueNext) >= Len(queue)
    /\ \A j \in DOMAIN queueNext :
          /\ queueNext[j].attemptsMade <= 3
          /\ queueNext[j].pc = "failed" <=> queueNext[j].attemptsMade = 3
    /\ \A j \in DOMAIN queue :
          /\ queue[j].pc = "failed" => queueNext[j] = queue[j]
          /\ queue[j].pc = "completed" => queueNext[j] = queue[j]
          /\ queueNext[j].pc # "completed"
                => queueNext[j].attemptsMade \in {queue[j].attemptsMade,
                                                  queue[j].attemptsMade + 1}

\* C15: every job of the donation queue and of the notification queue is
\* attempted at most 3 times; a job whose attempt succeeds is removed, and a job
\* whose 3rd attempt fails is kept in the failed set, never dropped and never
\* attempted again.
C15_AtMostThreeAttempts ==
    [][/\ AtMostThreeDeliveries(jobs, jobs')
       /\ AtMostThreeDeliveries(notifications, notifications')]_vars

\* C15 witness: one donation job has failed its 3rd attempt and is kept, while
\* another has succeeded and was removed.
C15_Witness ==
    /\ \E j \in DOMAIN jobs : jobs[j].pc = "failed" /\ jobs[j].attemptsMade = 3
    /\ \E j \in DOMAIN jobs : jobs[j] = Completed

C18_DonationAmountWithinBounds ==
    \A d \in donations :
        /\ d.amount >= Naira(MIN_DONATION_AMOUNT)
        /\ d.amount <= Naira(MAX_DONATION_AMOUNT)

C20_UnknownReferenceNoOp ==
    [][\A body \in WebhookBodies, readOk \in BOOLEAN :
          (/\ body.event = "charge.success"
           /\ body.hasData
           /\ \A t \in transactions : t.reference # body.reference
           /\ handleWebhook(body, {[key |-> PAYSTACK_SECRET_KEY, body |-> body]}, readOk))
          => /\ webhookResult'.status = 200
             /\ deliveries' = Append(deliveries, Finished)
             /\ wallets' = wallets
             /\ transactions' = transactions
             /\ \A t \in transactions' : t.reference # body.reference
             /\ credited' = credited]_vars

\* C20 witness: a charge.success for an unknown reference was answered 200
\* beside the untouched PENDING Transaction of another reference.
C20_Witness ==
    /\ webhookResult.status = 200
    /\ webhookResult.outcome = "No transaction found for reference"
    /\ \A t \in transactions : t.reference # webhookResult.reference
    /\ \E t \in transactions : t.status = "PENDING"
    /\ \A u \in DOMAIN wallets : wallets[u] = 0

\* C21: every webhook request that passed the signature check is answered 200.
C21_AlwaysOkAfterSignature ==
    webhookResult.outcome \notin {"", "No signature provided", "Invalid webhook signature"}
        => webhookResult.status = 200

\* C22: a correctly signed webhook whose event type is not charge.success is
\* answered 200 and leaves every wallet and every Transaction unchanged.
C22_OnlyChargeSuccessMutates ==
    [][\A body \in WebhookBodies, readOk \in BOOLEAN :
          (/\ body.event # "charge.success"
           /\ handleWebhook(body, {[key |-> PAYSTACK_SECRET_KEY, body |-> body]}, readOk))
          => /\ webhookResult'.status = 200
             /\ wallets' = wallets
             /\ transactions' = transactions
             /\ credited' = credited]_vars

\* C23: fundWallet commits its PENDING CREDIT Transaction before it calls the
\* gateway under the same reference and amount; a fundWallet whose create
\* failed never reaches the gateway; and a charge.success webhook for a
\* reference the gateway was given never finds the Transaction missing.
C23_PendingBeforeGateway ==
    [][/\ \A f \in funding' \ funding :
             \E t \in transactions' \ transactions :
                t = PendingTransaction(t.walletId, f.amount, f.reference)
       /\ \A g \in gateway' \ gateway :
             \E t \in transactions :
                /\ t.reference = g.reference
                /\ t.type = "CREDIT"
                /\ toKobo(t.amount) = g.amount
       /\ (/\ deliveries' = Append(deliveries, Finished)
           /\ webhookResult'.outcome = "No transaction found for reference")
             => \A g \in gateway' : g.reference # webhookResult'.reference]_vars

\* C23 witness: the gateway was called for a reference whose Transaction is
\* still PENDING, and a webhook for another reference found nothing.
C23_Witness ==
    /\ \E g \in gateway : \E t \in transactions :
          t.reference = g.reference /\ t.status = "PENDING"
    /\ webhookResult.outcome = "No transaction found for reference"
    /\ funding = {}

\* C27: no two Transaction rows ever share a reference; the two references of
\* a donation differ from each other, from those of every other donation and
\* from every funding reference; and a fundWallet whose generated reference
\* already exists creates no Transaction and never reaches the gateway.
\* Stated of every step that touches a Transaction or a gateway call.
C27_ReferenceUnique ==
    [][\/ /\ transactions' = transactions
          /\ funding' = funding
          /\ gateway' = gateway
       \/ /\ \A t1, t2 \in transactions' : t1.reference = t2.reference => t1 = t2
          /\ \A i1, i2 \in (1..MaxRequests) \X (1..Attempts), s1, s2 \in {"DEBIT", "CREDIT"} :
                /\ DonationReference(i1, s1) = DonationReference(i2, s2) => i1 = i2 /\ s1 = s2
                /\ DonationReference(i1, s1) \notin FundRefs
          /\ \A u \in UserIds, a \in FundAmounts, n \in 1..MaxRefs :
                TransactionByReference(DB, generateReference("FUND", n)) # {}
                    => ~fundWallet(u, a, n, 1)]_vars

\* C27 witness: every funding reference has its one Transaction, created for
\* different users, and the gateway was called once for each.
C27_Witness ==
    /\ \A r \in FundRefs : Cardinality(TransactionByReference(DB, r)) = 1
    /\ \E t1, t2 \in transactions : t1.walletId # t2.walletId
    /\ {g.reference : g \in gateway} = FundRefs
    /\ funding = {}

\* C26: under a running worker every enqueued donation job eventually is
\* completed or is kept in the failed set.
C26_JobEventuallySettled ==
    \A j \in 1..MaxRequests :
        (j \in DOMAIN jobs)
            ~> (j \in DOMAIN jobs /\ jobs[j].pc \in {"completed", "failed"})

\* C26 witness: one job completed and another was kept as failed after its
\* last attempt.
C26_Witness ==
    \E j1, j2 \in DOMAIN jobs :
        /\ jobs[j1].pc = "completed"
        /\ jobs[j2].pc = "failed"
        /\ jobs[j2].attemptsMade = Attempts

\* C28: every user has exactly one wallet, created with balance 0 in the same
\* step as the user; no two users share an email; and a register request for
\* an email that belongs to a user creates nothing.
C28_UserWithWallet ==
    [][/\ DOMAIN users' = DOMAIN wallets'
       /\ \A u1, u2 \in DOMAIN users' : users'[u1] = users'[u2] => u1 = u2
       /\ \A u \in DOMAIN users' \ DOMAIN users : wallets'[u] = 0
       /\ \A u \in DOMAIN users : users'[u] = users[u] /\ wallets'[u] = wallets[u]
       /\ \A r \in DOMAIN registrations' :
             registrations'[r].outcome = "User already exists"
                => UserByEmail(DB, registrations'[r].email) # {}]_vars

\* C28 witness: of two concurrent requests for one email one registered the
\* user with its wallet and the other failed in its create, and a later
\* request for the email was refused.
C28_Witness ==
    /\ Len(users) = 1
    /\ wallets = <<0>>
    /\ \E r1, r2, r3 \in DOMAIN registrations :
          /\ registrations[r1].outcome = "registered"
          /\ registrations[r2].outcome = "create failed"
          /\ registrations[r3].outcome = "User already exists"
          /\ registrations[r1].email = registrations[r2].email
          /\ registrations[r1].email = registrations[r3].email

\* C30: no Beneficiary row names its own user; no user has two rows for one
\* beneficiary, or two rows with one nickname; and an updateNickname to the
\* nickname the row has is not refused by the nickname check and its update
\* succeeds.
C30_BeneficiaryRowsUnique ==
    [][/\ \A b \in beneficiaries' : b.userId # b.beneficiaryId
       /\ \A b1, b2 \in beneficiaries' :
             /\ (b1.userId = b2.userId /\ b1.beneficiaryId = b2.beneficiaryId) => b1 = b2
             /\ (/\ b1.userId = b2.userId
                 /\ b1.nickname = b2.nickname
                 /\ b1.nickname # NoNickname) => b1 = b2
       /\ \A u \in Owners, b \in BeneficiaryIds, n \in Nicknames :
             (/\ \E r \in BeneficiaryPair(beneficiaries, u, b) : r.nickname = n
              /\ updateNickname(u, b, n))
             => operations'[Len(operations')].pc = "update"
       /\ \A o \in DOMAIN operations :
             (/\ \E r \in beneficiaries :
                    r.id = operations[o].rowId /\ r.nickname = operations[o].nickname
              /\ updateNicknameUpdate(o))
             => /\ operations'[o].outcome = "updated"
                /\ beneficiaries' = beneficiaries]_vars

\* C30 witness: two users each saved a beneficiary under the nickname "mum",
\* and an updateNickname of one row to "mum" succeeded.
C30_Witness ==
    /\ \E b1, b2 \in beneficiaries :
          b1.userId # b2.userId /\ b1.nickname = "mum" /\ b2.nickname = "mum"
    /\ \E o \in DOMAIN operations :
          /\ operations[o].kind = "update"
          /\ operations[o].nickname = "mum"
          /\ operations[o].outcome = "updated"
          /\ operations[operations[o].rowId].nickname = "mum"

\* C24: when the invalidation of a donation job has run and the job
\* completes, every entry the cache holds under donations:{id}:*, wallet:{id}
\* and user:{id} of the donor and of the beneficiary, under donation_count:*
\* and under users:* was written after every transfer of the job committed.
C24_NoEntryFromBeforeTransfer ==
    [][\A j \in DOMAIN jobs :
          workerDel(j, TRUE)
          => \A key \in DOMAIN cache' :
                (\/ /\ key.prefix \in {"donations", "wallet", "user"}
                    /\ key.userId \in {jobs[j].donorId, jobs[j].beneficiaryId}
                 \/ key.prefix \in {"donation_count", "users"})
                => /\ DonationsOfJob(j) # {}
                   /\ \A d \in DonationsOfJob(j) : d.id \in cache'[key].written.donations]_vars

\* C24 witness: the job completed; a donation list that was cached before its
\* transfer is gone, and the list the cache holds was written after it.
C24_Witness ==
    /\ \E j \in DOMAIN jobs : jobs[j].pc = "completed"
    /\ \E r \in DOMAIN readers :
          /\ readers[r].key.prefix = "donations"
          /\ readers[r].pc = "done"
          /\ ~readers[r].cached
          /\ readers[r].value = {}
    /\ \E key \in DOMAIN cache :
          /\ key.prefix = "donations"
          /\ cache[key].value # {}
          /\ cache[key].written.donations # {}

\* C25: a getUserWallet or getUserById that answers from the cache never
\* answers with an entry written before a webhook credit of that user's wallet
\* committed.
C25_NoBalanceCachedBeforeCredit ==
    [][\A u \in Readers :
          (getUserWallet(u) \/ getUserById(u))
          => LET r == readers'[Len(readers')]
             IN  r.cached
                 => \A ref \in DOMAIN credited :
                        (\E t \in transactions : t.reference = ref /\ t.walletId = u)
                        => /\ ref \in DOMAIN cache[r.key].written.credited
                           /\ cache[r.key].written.credited[ref] = credited[ref]]_vars

\* C29: whatever the cache holds, getDonation answers a user who is neither
\* donor nor beneficiary with 'Access denied', a missing id with 'Donation not
\* found', the donor with the donation, role 'donor' and only its DEBIT
\* transactions, and the beneficiary with the donation, role 'beneficiary' and
\* only its CREDIT transactions.
C29_DonationVisibleToItsParties ==
    [][\A id \in DonationIds, u \in UserIds :
          getDonation(id, u)
          => LET r == readers'[Len(readers')]
                 found == {d \in donations : d.id = id}
                 d == CHOOSE x \in found : TRUE
             IN  IF found = {} THEN r.outcome = "Donation not found"
                 ELSE IF u \notin {d.donorId, d.beneficiaryId}
                      THEN r.outcome = "Access denied" /\ r.value = NoValue
                 ELSE /\ r.outcome \in {"", "ok"}
                      /\ r.value.donation = d
                      /\ r.value.userRole = IF u = d.donorId THEN "donor" ELSE "beneficiary"
                      /\ r.value.transactions # {}
                      /\ \A t \in r.value.transactions :
                            /\ t \in transactions
                            /\ t.donationId = id
                            /\ t.type = IF u = d.donorId THEN "DEBIT" ELSE "CREDIT"]_vars

\* C29 witness: the donor's view of the donation is cached, and a user who is
\* neither donor nor beneficiary was then refused.
C29_Witness ==
    /\ \E key \in DOMAIN cache :
          /\ key.prefix = "donation"
          /\ cache[key].value.userRole = "donor"
    /\ Len(readers) = 2
    /\ readers[1].cached = FALSE /\ readers[1].outcome = "ok"
    /\ readers[2].outcome = "Access denied"
    /\ readers[2].key.id = readers[1].key.id

\* C35: a funding Transaction is created PENDING and a donation Transaction
\* SUCCESS; every Transaction stays, with its amount, wallet, type and
\* reference; its status changes only from PENDING to SUCCESS.
C35_StatusMovesForward ==
    [][\/ transactions' = transactions
       \/ /\ \A t \in transactions' :
                (\A old \in transactions : old.reference # t.reference)
                => t.status = IF t.reference.prefix = "FUND" THEN "PENDING" ELSE "SUCCESS"
          /\ \A old \in transactions :
                \E t \in transactions' :
                   /\ [t EXCEPT !.status = old.status] = old
                   /\ t.status # old.status
                        => old.status = "PENDING" /\ t.status = "SUCCESS"]_vars

\* C35 witness: the funding Transaction created PENDING is SUCCESS beside the
\* two SUCCESS Transactions of a donation.
C35_Witness ==
    /\ \E t \in transactions :
          /\ t.reference = generateReference("FUND", 2)
          /\ t.status = "SUCCESS"
    /\ \E t \in transactions : t.reference.prefix = "DON" /\ t.status = "SUCCESS"
    /\ gateway # {}

\* C36: no step of fundWallet changes a wallet balance, and a failed gateway
\* call leaves the Transaction rows as they are, the row of the request among
\* them; the wallet a webhook credits is the one that owns the Transaction
\* found under the event's reference.
C36_FundWalletFrame ==
    [][/\ (funding' # funding \/ gateway' # gateway)
             => wallets' = wallets /\ credited' = credited
       /\ \A f \in funding :
             fundWalletInitialize(f, FALSE)
             => /\ transactions' = transactions
                /\ TransactionByReference(DB, f.reference) # {}
       /\ \A u \in DOMAIN wallets :
             wallets'[u] # wallets[u]
             => \E h \in DOMAIN deliveries :
                   /\ deliveries[h].pc = "credit"
                   /\ deliveries'[h] = Finished
                   /\ wallets'[u] = wallets[u] + deliveries[h].amount
                   /\ \E t \in TransactionByReference(DB, deliveries[h].reference) :
                         t.walletId = u]_vars

\* C36 witness: user 1's funding was credited to wallet 1 although every
\* event named the wallet of user 2 or 3, which stay empty; the gateway call
\* of user 2's request failed and left its Transaction PENDING.
C36_Witness ==
    /\ wallets = <<Naira(200), 0, 0>>
    /\ \E t \in transactions : t.status = "PENDING" /\ t.walletId = 2
    /\ \A g \in gateway : \E t \in transactions :
          t.reference = g.reference /\ t.walletId = 1
    /\ gateway # {}
    /\ funding = {}

\* C33: when two jobs have both ended, with no failure of the store, the queue
\* or the cache in between, the balances, the Donations and the donation
\* Transactions are those that processing the two jobs one at a time, in one
\* of the two orders, leaves.
C33_Serialized ==
    (Settled /\ faults = 0 /\ Len(jobs) = 2)
    => \E order \in {<<1, 2>>, <<2, 1>>} : SameAsOneAtATime(order)

\* the two jobs have no wallet in common
DisjointPairs ==
    {JobData(1).donorId, JobData(1).beneficiaryId}
        \cap {JobData(2).donorId, JobData(2).beneficiaryId} = {}

\* C34: when two jobs on disjoint donor and beneficiary pairs have both ended,
\* with no failure in between, the state is the one that processing them one
\* at a time leaves, in either order.
C34_DisjointCommute ==
    (Settled /\ faults = 0 /\ Len(jobs) = 2 /\ DisjointPairs)
    => \A order \in {<<1, 2>>, <<2, 1>>} : SameAsOneAtATime(order)

\* C34 witness: the jobs 1 -> 2 and 3 -> 4 both completed, and both transfers
\* are in the balances.
C34_Witness ==
    /\ Settled /\ faults = 0 /\ Len(jobs) = 2 /\ DisjointPairs
    /\ \A j \in DOMAIN jobs : jobs[j].pc = "completed"
    /\ wallets = <<0, Naira(100), 0, Naira(100)>>
    /\ Cardinality(donations) = 2

\* C37: once the donation job has completed, its cache invalidation done, a
\* getUserWallet of the donor or of the beneficiary returns the balance the
\* store holds, whether it answers from the cache or from the store.
C37_ReadAfterInvalidation ==
    [][\A u \in Readers :
          (/\ jobs # <<>>
           /\ \A j \in DOMAIN jobs : jobs[j].pc = "completed"
           /\ getUserWallet(u))
          => readers'[Len(readers')].value = WalletValue(u)]_vars

\* the auth requests a step starts
Started == DOMAIN calls' \ DOMAIN calls

\* C31: a refreshAccessToken is answered with an access token exactly when the
\* row of its refresh token is there, not expired and not revoked, and nothing
\* else but a login signs one; an expired token goes on to its delete, after
\* which the row is gone; the update of a logout leaves the token revoked and
\* a logout from all devices leaves every token of the user revoked; and a
\* revoked token stays revoked, a deleted one deleted, in every step, so that
\* every later refresh of it fails.
C31_RefreshOnlyValid ==
    [][/\ \A c \in Started :
             calls'[c].op = "refresh" =>
               LET t == calls'[c].refresh
                   valid == /\ t \in DOMAIN refreshTokens
                            /\ ~refreshTokens[t].deleted
                            /\ clock <= refreshTokens[t].expiresAt
                            /\ ~refreshTokens[t].revoked
               IN  /\ calls'[c].outcome = "ok" <=> valid
                   /\ valid <=> calls'[c].access \in issued'
                   /\ valid => calls'[c].access.userId = refreshTokens[t].userId
                   /\ (t \in DOMAIN refreshTokens /\ ~refreshTokens[t].deleted
                         /\ clock > refreshTokens[t].expiresAt)
                      => calls'[c].pc = "delete"
       /\ issued' # issued =>
             \/ Len(refreshTokens') = Len(refreshTokens) + 1
             \/ \E c \in Started : calls'[c].op = "refresh" /\ calls'[c].outcome = "ok"
       /\ \A c \in DOMAIN calls :
             /\ (calls[c].pc = "delete" /\ calls'[c].pc = "done")
                   => /\ refreshTokens'[calls[c].refresh].deleted
                      /\ calls'[c].outcome # "ok"
             /\ (calls[c].pc = "update" /\ calls'[c].pc # "update"
                    /\ calls'[c].outcome # "error")
                   => refreshTokens'[calls[c].refresh].revoked
       /\ \A c \in Started :
             (calls'[c].op = "logoutAll" /\ calls'[c].outcome # "error")
             => \A t \in DOMAIN refreshTokens' :
                   refreshTokens'[t].userId = calls'[c].userId
                   => refreshTokens'[t].revoked \/ refreshTokens'[t].deleted
       /\ \A t \in DOMAIN refreshTokens :
             /\ refreshTokens[t].revoked => refreshTokens'[t].revoked
             /\ refreshTokens[t].deleted => refreshTokens'[t].deleted]_vars

\* C31 witness: a token revoked by a logout was refused a refresh.
C31_Witness ==
    /\ Len(calls) = 2
    /\ calls[1].op = "logout" /\ calls[1].outcome = "Logged out successfully"
    /\ calls[2].op = "refresh" /\ calls[2].refresh = calls[1].refresh
    /\ calls[2].outcome = "Refresh token has been revoked"
    /\ refreshTokens[calls[1].refresh].revoked

\* a logout that returned its message has blacklisted the access token
LoggedOutWith(accessToken) ==
    \E c \in DOMAIN calls :
        /\ Decodable(accessToken)
        /\ calls[c].op \in {"logout", "logoutAll"}
        /\ calls[c].access = accessToken
        /\ calls[c].outcome = LoggedOut(calls[c].op)

C38_LogoutIdempotent ==
    [][\A c \in DOMAIN calls :
          (/\ calls[c].op = "logout"
           /\ blacklistCreate(c, TRUE)
           /\ \E e \in DOMAIN calls \ {c} :
                 calls[e] = [calls[c] EXCEPT !.pc = "done",
                                             !.outcome = "Logged out successfully"])
          => /\ calls'[c].outcome = "Logged out successfully"
             /\ blacklist' = blacklist
             /\ refreshTokens' = refreshTokens]_vars

====
